---- MODULE Spec2Model ----
(***************************************************************************)
(* Storage layer of GoTask_Management: the Storage contract (Create,       *)
(* GetAll, GetByID, Update, Delete) as implemented by the JSON file        *)
(* backend, the embedded SQLite backend, the GORM backends (MySQL,         *)
(* PostgreSQL) and the MongoDB backend, and the file backend's             *)
(* lock / load / modify / save discipline step by step.                    *)
(***************************************************************************)
EXTENDS Integers, Sequences, FiniteSets, TLC

(***************************************************************************)
(* Bounds of the model.                                                    *)
(***************************************************************************)
\* most records a JSON file holds (the relational stores are bounded by Ids)
MaxTasks == 3
\* most records the file holds in the step-by-step file specifications
MaxFile == 2

(***************************************************************************)
(* models.Task.  A *time.Time is a sequence: <<>> is nil, <<d>> points at  *)
(* the time d; the time 0 is the zero time.Time.                           *)
(***************************************************************************)
Ids == {"t1", "t2"}
Titles == {"a", "b"}
Times == {1, 2}
DueDates == {<<>>, <<0>>, <<1>>}

BaseTask(id) ==
  [id |-> id, title |-> "a", done |-> FALSE, createdAt |-> 1, dueDate |-> <<>>]

FieldDiff(a, b) ==
  Cardinality({f \in {"title", "done", "createdAt", "dueDate"} : a[f] # b[f]})

\* The task values the operations are called with: every field takes each of
\* its values, one field at a time away from BaseTask.
Tasks ==
  {t \in [id : Ids, title : Titles, done : BOOLEAN, createdAt : Times,
          dueDate : DueDates] : FieldDiff(t, BaseTask(t.id)) <= 1}

(***************************************************************************)
(* Backend kinds and errors.                                               *)
(***************************************************************************)
StorageTypeJSON == "json"
StorageTypeSQLite == "sqlite"
StorageTypePostgreSQL == "postgres"
StorageTypeMySQL == "mysql"
StorageTypeMongoDB == "mongodb"

StorageTypes ==
  {StorageTypeJSON, StorageTypeSQLite, StorageTypePostgreSQL, StorageTypeMySQL,
   StorageTypeMongoDB}

ErrNil == "nil"
\* fmt.Errorf("task not found")
ErrTaskNotFound == "task not found"
\* database/sql's ErrNoRows, which the SQLite backend returns as is
ErrNoRows == "sql: no rows in result set"
\* the engine's primary-key / unique-index violation on insert
ErrConstraint == "constraint violation"

IsNotFound(err) == err \in {ErrTaskNotFound, ErrNoRows}
IsConflict(err) == err = ErrConstraint

\* SQL NULL in a nullable DATETIME column
Null == -1

VARIABLES
  backend,   \* the kind of backend NewStorage constructed
  store,     \* what that backend persists: JSON objects, rows or documents
  ret,       \* the last call of the contract and what it returned
  file,      \* file backend, step by step: the main file
  temp,      \* the sibling temporary file (path + ".tmp")
  mu,        \* JSONStorage.mu: the writer that announced itself, the readers
  pc,        \* where each caller is in its call
  call,      \* each caller's operation and argument
  loaded,    \* each caller's result of load()
  pending,   \* each caller's list handed to save()
  result,    \* each caller's returned error and value
  crashed,   \* the process was killed
  acked,     \* tasks whose Create returned nil
  now        \* the service's clock: what time.Now() reads

\* what the file backend's steps leave alone, what the contract's calls leave
\* alone (neither reads the clock), and all variables
seqVars == <<backend, store, ret, now>>
fileVars == <<file, temp, mu, pc, call, loaded, pending, result, crashed, acked, now>>
vars == <<backend, store, ret, file, temp, mu, pc, call, loaded, pending, result,
          crashed, acked, now>>

(***************************************************************************)
(* Sequence helpers.                                                       *)
(***************************************************************************)
Range(s) == {s[i] : i \in 1..Len(s)}
MapSeq(s, F(_)) == [i \in 1..Len(s) |-> F(s[i])]
IdsOf(s) == [i \in 1..Len(s) |-> s[i].id]
HasId(s, id) == \E i \in 1..Len(s) : s[i].id = id
FirstIdx(s, id) == CHOOSE i \in 1..Len(s) : s[i].id = id /\ \A j \in 1..(i - 1) : s[j].id # id
FilterOut(s, id) == SelectSeq(s, LAMBDA x : x.id # id)

(***************************************************************************)
(* encoding/json on models.Task: due_date carries omitempty, which drops   *)
(* the key of a nil pointer only.                                          *)
(***************************************************************************)
\* encoding as a plausible slip: omitempty taken to drop the zero timestamp too
MarshalTaskOmitZero(t) ==
  IF t.dueDate = <<>> \/ t.dueDate = <<0>>
  THEN [id |-> t.id, title |-> t.title, done |-> t.done, created_at |-> t.createdAt]
  ELSE [id |-> t.id, title |-> t.title, done |-> t.done, created_at |-> t.createdAt,
        due_date |-> t.dueDate[1]]

MarshalTask(t) ==
  IF t.dueDate = <<>>
  THEN [id |-> t.id, title |-> t.title, done |-> t.done, created_at |-> t.createdAt]
  ELSE [id |-> t.id, title |-> t.title, done |-> t.done, created_at |-> t.createdAt,
        due_date |-> t.dueDate[1]]

UnmarshalTask(o) ==
  [id |-> o.id, title |-> o.title, done |-> o.done, createdAt |-> o.created_at,
   dueDate |-> IF "due_date" \in DOMAIN o THEN <<o.due_date>> ELSE <<>>]

\* JSONStorage.load: parse the whole file
load(content) == MapSeq(content, UnmarshalTask)
\* the bytes JSONStorage.save writes: json.MarshalIndent of the whole list
Marshal(tasks) == MapSeq(tasks, MarshalTask)

(***************************************************************************)
(* JSON file backend: what each handler does to the loaded list between    *)
(* load() and save().  err # ErrNil means the handler returns without      *)
(* saving.                                                                 *)
(***************************************************************************)
\* Create as a plausible slip: a record with the task's id is replaced
CreateModifyReplace(tasks, task) ==
  IF HasId(tasks, task.id)
  THEN [tasks |-> [tasks EXCEPT ![FirstIdx(tasks, task.id)] = task], err |-> ErrNil]
  ELSE [tasks |-> Append(tasks, task), err |-> ErrNil]

\* Create: tasks = append(tasks, task)
CreateModify(tasks, task) == [tasks |-> Append(tasks, task), err |-> ErrNil]

\* Update as a plausible slip: the record is dropped and appended again
UpdateModifyMoved(tasks, task) ==
  IF HasId(tasks, task.id)
  THEN [tasks |-> Append(FilterOut(tasks, task.id), task), err |-> ErrNil]
  ELSE [tasks |-> tasks, err |-> ErrTaskNotFound]

\* Update: the first record with task.ID is replaced in place
UpdateModify(tasks, task) ==
  IF HasId(tasks, task.id)
  THEN [tasks |-> [tasks EXCEPT ![FirstIdx(tasks, task.id)] = task], err |-> ErrNil]
  ELSE [tasks |-> tasks, err |-> ErrTaskNotFound]

\* Delete: every record with another id is kept, found when one was dropped
DeleteModify(tasks, id) ==
  IF HasId(tasks, id)
  THEN [tasks |-> FilterOut(tasks, id), err |-> ErrNil]
  ELSE [tasks |-> tasks, err |-> ErrTaskNotFound]

\* GetByID: the first record with the id
\* GetByID's search as a plausible slip: the loop returns at its first record
FindByIDFirst(tasks, id) ==
  IF tasks # <<>>
  THEN [val |-> <<tasks[1]>>, err |-> ErrNil]
  ELSE [val |-> <<>>, err |-> ErrTaskNotFound]

FindByID(tasks, id) ==
  IF HasId(tasks, id)
  THEN [val |-> <<tasks[FirstIdx(tasks, id)]>>, err |-> ErrNil]
  ELSE [val |-> <<>>, err |-> ErrTaskNotFound]

(***************************************************************************)
(* JSON file backend, one call as a whole (load, modify, save under        *)
(* js.mu).  Each operator gives the new content and the returned error.    *)
(***************************************************************************)
Saved(content, r) ==
  [store |-> IF r.err = ErrNil THEN Marshal(r.tasks) ELSE content, err |-> r.err]

JSONCreate(content, task) == Saved(content, CreateModify(load(content), task))

JSONGetAll(content) == {load(content)}

JSONGetByID(content, id) == FindByID(load(content), id)

JSONUpdate(content, task) == Saved(content, UpdateModify(load(content), task))

JSONDelete(content, id) == Saved(content, DeleteModify(load(content), id))

(***************************************************************************)
(* Relational rows: tasks(id PRIMARY KEY, title, done, created_at,         *)
(* due_date NULL).                                                         *)
(***************************************************************************)
ToRow(t) ==
  [id |-> t.id, title |-> t.title, done |-> t.done, created_at |-> t.createdAt,
   due_date |-> IF t.dueDate = <<>> THEN Null ELSE t.dueDate[1]]

\* rows.Scan into the task and a sql.NullTime
ScanRow(r) ==
  [id |-> r.id, title |-> r.title, done |-> r.done, createdAt |-> r.created_at,
   dueDate |-> IF r.due_date = Null THEN <<>> ELSE <<r.due_date>>]

(***************************************************************************)
(* Embedded SQLite backend.                                                *)
(***************************************************************************)
SQLiteCreate(rows, task) ==
  IF HasId(rows, task.id)
  THEN [store |-> rows, err |-> ErrConstraint]
  ELSE [store |-> Append(rows, ToRow(task)), err |-> ErrNil]

SQLiteGetAll(rows) == {MapSeq(rows, ScanRow)}

SQLiteGetByID(rows, id) ==
  IF HasId(rows, id)
  THEN [val |-> <<ScanRow(rows[FirstIdx(rows, id)])>>, err |-> ErrNil]
  ELSE [val |-> <<>>, err |-> ErrNoRows]

\* UPDATE tasks SET title = ?, done = ?, due_date = ? WHERE id = ?
SQLiteUpdate(rows, task) ==
  IF HasId(rows, task.id)
  THEN [store |-> [rows EXCEPT ![FirstIdx(rows, task.id)] =
                     [@ EXCEPT !.title = task.title, !.done = task.done,
                               !.due_date = ToRow(task).due_date]],
        err |-> ErrNil]
  ELSE [store |-> rows, err |-> ErrNoRows]

SQLiteDelete(rows, id) ==
  IF HasId(rows, id)
  THEN [store |-> FilterOut(rows, id), err |-> ErrNil]
  ELSE [store |-> rows, err |-> ErrNoRows]

(***************************************************************************)
(* GORM backends (MySQL, PostgreSQL).                                      *)
(***************************************************************************)
\* the permutations of rows in creation time descending order (ties in any order)
OrderByCreatedAtDesc(rows) ==
  LET n == Len(rows)
      perms == {p \in [1..n -> 1..n] : \A i, j \in 1..n : i # j => p[i] # p[j]}
  IN {[i \in 1..n |-> rows[p[i]]] : p \in
        {q \in perms : \A i, j \in 1..n :
           i < j => rows[q[i]].created_at >= rows[q[j]].created_at}}

GormCreate(rows, task) ==
  IF HasId(rows, task.id)
  THEN [store |-> rows, err |-> ErrConstraint]
  ELSE [store |-> Append(rows, ToRow(task)), err |-> ErrNil]

GormGetAll(rows) == {MapSeq(s, ScanRow) : s \in OrderByCreatedAtDesc(rows)}

GormGetByID(rows, id) ==
  IF HasId(rows, id)
  THEN [val |-> <<ScanRow(rows[FirstIdx(rows, id)])>>, err |-> ErrNil]
  ELSE [val |-> <<>>, err |-> ErrTaskNotFound]

\* db.Save(task) with a non-zero primary key: UPDATE of every column WHERE id;
\* when that affects no row, INSERT ... ON CONFLICT/DUPLICATE KEY UPDATE.
\* MySQL counts the rows it changed (the DSN does not ask for found rows), so an
\* UPDATE and an upsert that change nothing affect 0 rows; PostgreSQL counts
\* the rows it matched.  Gives the rows and result.RowsAffected.
GormSave(dialect, rows, task) ==
  IF HasId(rows, task.id)
  THEN LET i == FirstIdx(rows, task.id) IN
       IF dialect = StorageTypeMySQL /\ rows[i] = ToRow(task)
       THEN [store |-> rows, affected |-> 0]
       ELSE [store |-> [rows EXCEPT ![i] = ToRow(task)], affected |-> 1]
  ELSE [store |-> Append(rows, ToRow(task)), affected |-> 1]

GormUpdate(dialect, rows, task) ==
  LET r == GormSave(dialect, rows, task) IN
  [store |-> r.store, err |-> IF r.affected = 0 THEN ErrTaskNotFound ELSE ErrNil]

GormDelete(rows, id) ==
  IF HasId(rows, id)
  THEN [store |-> FilterOut(rows, id), err |-> ErrNil]
  ELSE [store |-> rows, err |-> ErrTaskNotFound]

(***************************************************************************)
(* MongoDB backend.  models.Task has no bson tags, so the driver names     *)
(* the keys after the lower-cased fields; a nil DueDate is stored as null. *)
(***************************************************************************)
ToDoc(t) ==
  [id |-> t.id, title |-> t.title, done |-> t.done, createdat |-> t.createdAt,
   duedate |-> IF t.dueDate = <<>> THEN Null ELSE t.dueDate[1]]

DecodeDoc(d) ==
  [id |-> d.id, title |-> d.title, done |-> d.done, createdAt |-> d.createdat,
   dueDate |-> IF d.duedate = Null THEN <<>> ELSE <<d.duedate>>]

\* InsertOne against the unique index on id
MongoCreate(docs, task) ==
  IF HasId(docs, task.id)
  THEN [store |-> docs, err |-> ErrConstraint]
  ELSE [store |-> Append(docs, ToDoc(task)), err |-> ErrNil]

\* Find sorted on created_at, a key no stored document has: natural order
MongoGetAll(docs) == {MapSeq(docs, DecodeDoc)}

MongoGetByID(docs, id) ==
  IF HasId(docs, id)
  THEN [val |-> <<DecodeDoc(docs[FirstIdx(docs, id)])>>, err |-> ErrNil]
  ELSE [val |-> <<>>, err |-> ErrTaskNotFound]

\* UpdateOne(filter id, $set task): MatchedCount = 0 is not found
MongoUpdate(docs, task) ==
  IF HasId(docs, task.id)
  THEN [store |-> [docs EXCEPT ![FirstIdx(docs, task.id)] = ToDoc(task)],
        err |-> ErrNil]
  ELSE [store |-> docs, err |-> ErrTaskNotFound]

MongoDelete(docs, id) ==
  IF HasId(docs, id)
  THEN [store |-> FilterOut(docs, id), err |-> ErrNil]
  ELSE [store |-> docs, err |-> ErrTaskNotFound]

(***************************************************************************)
(* The Storage interface: dispatch on the backend NewStorage constructed.  *)
(***************************************************************************)
IsGorm(b) == b \in {StorageTypePostgreSQL, StorageTypeMySQL}

StorageCreate(b, s, task) ==
  CASE b = StorageTypeJSON -> JSONCreate(s, task)
    [] b = StorageTypeSQLite -> SQLiteCreate(s, task)
    [] IsGorm(b) -> GormCreate(s, task)
    [] OTHER -> MongoCreate(s, task)

StorageGetAll(b, s) ==
  CASE b = StorageTypeJSON -> JSONGetAll(s)
    [] b = StorageTypeSQLite -> SQLiteGetAll(s)
    [] IsGorm(b) -> GormGetAll(s)
    [] OTHER -> MongoGetAll(s)

StorageGetByID(b, s, id) ==
  CASE b = StorageTypeJSON -> JSONGetByID(s, id)
    [] b = StorageTypeSQLite -> SQLiteGetByID(s, id)
    [] IsGorm(b) -> GormGetByID(s, id)
    [] OTHER -> MongoGetByID(s, id)

StorageUpdate(b, s, task) ==
  CASE b = StorageTypeJSON -> JSONUpdate(s, task)
    [] b = StorageTypeSQLite -> SQLiteUpdate(s, task)
    [] IsGorm(b) -> GormUpdate(b, s, task)
    [] OTHER -> MongoUpdate(s, task)

StorageDelete(b, s, id) ==
  CASE b = StorageTypeJSON -> JSONDelete(s, id)
    [] b = StorageTypeSQLite -> SQLiteDelete(s, id)
    [] IsGorm(b) -> GormDelete(s, id)
    [] OTHER -> MongoDelete(s, id)

\* the stored records as tasks, in stored order
Decode(b, s) ==
  CASE b = StorageTypeJSON -> load(s)
    [] b = StorageTypeMongoDB -> MapSeq(s, DecodeDoc)
    [] OTHER -> MapSeq(s, ScanRow)

(***************************************************************************)
(* The contract's calls, one call after another on one backend.            *)
(***************************************************************************)
NoCall == [op |-> "none", arg |-> <<>>, id |-> "", err |-> ErrNil, val |-> <<>>]

FileIdle ==
  /\ file = <<>>
  /\ temp = <<>>
  /\ mu = <<>>
  /\ pc = <<>>
  /\ call = <<>>
  /\ loaded = <<>>
  /\ pending = <<>>
  /\ result = <<>>
  /\ crashed = FALSE
  /\ acked = {}
  /\ now = 0

Init ==
  /\ backend \in StorageTypes
  /\ store = <<>>
  /\ ret = NoCall
  /\ FileIdle

Create(task) ==
  /\ Len(store) < MaxTasks
  /\ \E r \in {StorageCreate(backend, store, task)} :
     /\ store' = r.store
     /\ ret' = [op |-> "Create", arg |-> <<task>>, id |-> task.id, err |-> r.err,
                val |-> <<>>]
  /\ UNCHANGED <<backend, fileVars>>

GetAll ==
  /\ \E v \in StorageGetAll(backend, store) :
       ret' = [op |-> "GetAll", arg |-> <<>>, id |-> "", err |-> ErrNil, val |-> v]
  /\ UNCHANGED <<backend, store, fileVars>>

GetByID(id) ==
  /\ LET r == StorageGetByID(backend, store, id) IN
     ret' = [op |-> "GetByID", arg |-> <<>>, id |-> id, err |-> r.err, val |-> r.val]
  /\ UNCHANGED <<backend, store, fileVars>>

Update(task) ==
  /\ Len(store) < MaxTasks \/ HasId(store, task.id)
  /\ \E r \in {StorageUpdate(backend, store, task)} :
     /\ store' = r.store
     /\ ret' = [op |-> "Update", arg |-> <<task>>, id |-> task.id, err |-> r.err,
                val |-> <<>>]
  /\ UNCHANGED <<backend, fileVars>>

Delete(id) ==
  /\ \E r \in {StorageDelete(backend, store, id)} :
     /\ store' = r.store
     /\ ret' = [op |-> "Delete", arg |-> <<>>, id |-> id, err |-> r.err, val |-> <<>>]
  /\ UNCHANGED <<backend, fileVars>>

Next ==
  \/ \E task \in Tasks : Create(task)
  \/ GetAll
  \/ \E id \in Ids : GetByID(id)
  \/ \E task \in Tasks : Update(task)
  \/ \E id \in Ids : Delete(id)

Spec == Init /\ [][Next]_vars

(***************************************************************************)
(* The file backend step by step: callers (goroutines) of one JSONStorage  *)
(* instance, its sync.RWMutex, the main file and the temporary file.       *)
(***************************************************************************)
Procs == {"p1", "p2", "p3"}
NoProc == ""

\* the task values the concurrent callers use: two ids, and two values of t1
FTasks ==
  {t \in Tasks : /\ t.done = FALSE /\ t.createdAt = 1 /\ t.dueDate = <<>>
                 /\ (t.id = "t2" => t.title = "a")}

\* a record stored before the callers start
PreTask == BaseTask("t0")

\* a file: "absent", "partial" (created or truncated, not all bytes written)
\* or "complete", and the records its bytes encode
AbsentFile == [state |-> "absent", data |-> <<>>]
PartialFile == [state |-> "partial", data |-> <<>>]
\* a file whose bytes are not a JSON array, as CreateInvalidJSONFile writes it
CorruptFile == [state |-> "corrupt", data |-> <<>>]
CompleteFile(tasks) == [state |-> "complete", data |-> Marshal(tasks)]

\* json.Unmarshal of anything but a complete array fails
ErrParse == "unexpected end of JSON input"

NoOp == [op |-> "none", arg |-> <<>>, id |-> ""]
NoResult == [err |-> ErrNil, val |-> <<>>]

\* pc values at which a caller holds js.mu exclusively / shared
WriterSection == {"load", "modify", "OpenTemp", "WriteTemp", "Rename", "Unlock"}
ReaderSection == {"rload", "RUnlock"}

Writers == {p \in Procs : pc[p] \in WriterSection}
Readers == {p \in Procs : pc[p] \in ReaderSection}

\* NewJSONStorage as a plausible slip: save without the os.Stat test
NewJSONStorageTruncate(f) == IF f.state = "nodir" THEN f ELSE CompleteFile(<<>>)

\* NewJSONStorage(filepath): the file is created empty when it does not exist
NewJSONStorage(f) == IF f.state = "absent" THEN CompleteFile(<<>>) ELSE f

InitFileWith(tasks) ==
  /\ backend = StorageTypeJSON
  /\ store = <<>>
  /\ ret = NoCall
  /\ file = NewJSONStorage(IF tasks = <<>> THEN AbsentFile ELSE CompleteFile(tasks))
  /\ temp = AbsentFile
  /\ mu = [writer |-> NoProc, readers |-> {}]
  /\ pc = [p \in Procs |-> "idle"]
  /\ call = [p \in Procs |-> NoOp]
  /\ loaded = [p \in Procs |-> <<>>]
  /\ pending = [p \in Procs |-> <<>>]
  /\ result = [p \in Procs |-> NoResult]
  /\ crashed = FALSE
  /\ acked = {}
  /\ now = 0

\* a caller enters Create, Update or Delete: js.mu.Lock() is next
CallWrite(p, op, task, id) ==
  /\ ~crashed
  /\ pc[p] = "idle"
  /\ pc' = [pc EXCEPT ![p] = "Lock"]
  /\ call' = [call EXCEPT ![p] = [op |-> op, arg |-> task, id |-> id]]
  /\ result' = [result EXCEPT ![p] = NoResult]
  /\ UNCHANGED <<seqVars, file, temp, mu, loaded, pending, crashed, acked>>

\* a caller enters GetAll or GetByID: js.mu.RLock() is next
CallRead(p, op, id) ==
  /\ ~crashed
  /\ pc[p] = "idle"
  /\ pc' = [pc EXCEPT ![p] = "RLock"]
  /\ call' = [call EXCEPT ![p] = [op |-> op, arg |-> <<>>, id |-> id]]
  /\ result' = [result EXCEPT ![p] = NoResult]
  /\ UNCHANGED <<seqVars, file, temp, mu, loaded, pending, crashed, acked>>

\* Lock as a plausible slip: a second writer does not wait for the first
LockNoWait(p) ==
  /\ ~crashed
  /\ pc[p] = "Lock"
  /\ mu' = [mu EXCEPT !.writer = p]
  /\ pc' = [pc EXCEPT ![p] = "LockWait"]
  /\ UNCHANGED <<seqVars, file, temp, call, loaded, pending, result, crashed, acked>>

\* js.mu.Lock(), first half: the writer takes the writers' mutex and
\* announces itself, which keeps new readers out
Lock(p) ==
  /\ ~crashed
  /\ pc[p] = "Lock"
  /\ mu.writer = NoProc
  /\ mu' = [mu EXCEPT !.writer = p]
  /\ pc' = [pc EXCEPT ![p] = "LockWait"]
  /\ UNCHANGED <<seqVars, file, temp, call, loaded, pending, result, crashed, acked>>

\* Lock as a plausible slip: the writer does not wait for the readers inside
LockWaitNoReaders(p) ==
  /\ ~crashed
  /\ pc[p] = "LockWait"
  /\ pc' = [pc EXCEPT ![p] = "load"]
  /\ UNCHANGED <<seqVars, file, temp, mu, call, loaded, pending, result, crashed, acked>>

\* js.mu.Lock(), second half: it waits for the active readers to leave
LockWait(p) ==
  /\ ~crashed
  /\ pc[p] = "LockWait"
  /\ mu.readers = {}
  /\ pc' = [pc EXCEPT ![p] = "load"]
  /\ UNCHANGED <<seqVars, file, temp, mu, call, loaded, pending, result, crashed, acked>>

\* RLock as a plausible slip: the reader does not look at the writer
RLockNoWait(p) ==
  /\ ~crashed
  /\ pc[p] = "RLock"
  /\ mu' = [mu EXCEPT !.readers = @ \cup {p}]
  /\ pc' = [pc EXCEPT ![p] = "rload"]
  /\ UNCHANGED <<seqVars, file, temp, call, loaded, pending, result, crashed, acked>>

\* js.mu.RLock(): blocks while a writer holds or waits for the lock
RLock(p) ==
  /\ ~crashed
  /\ pc[p] = "RLock"
  /\ mu.writer = NoProc
  /\ mu' = [mu EXCEPT !.readers = @ \cup {p}]
  /\ pc' = [pc EXCEPT ![p] = "rload"]
  /\ UNCHANGED <<seqVars, file, temp, call, loaded, pending, result, crashed, acked>>

\* load as a plausible slip: unparsable content is taken for an empty list
LoadRecover(p) ==
  /\ ~crashed
  /\ pc[p] = "load"
  /\ loaded' = [loaded EXCEPT ![p] =
                  IF file.state = "complete" THEN load(file.data) ELSE <<>>]
  /\ pc' = [pc EXCEPT ![p] = "modify"]
  /\ UNCHANGED <<seqVars, file, temp, mu, call, pending, result, crashed, acked>>

\* Load as a plausible slip: the load error returns without the Unlock
LoadErrorKeepsLock(p) ==
  /\ ~crashed
  /\ pc[p] = "load"
  /\ IF file.state = "complete"
     THEN /\ loaded' = [loaded EXCEPT ![p] = load(file.data)]
          /\ pc' = [pc EXCEPT ![p] = "modify"]
          /\ UNCHANGED <<call, result>>
     ELSE /\ pc' = [pc EXCEPT ![p] = "idle"]
          /\ call' = [call EXCEPT ![p] = NoOp]
          /\ UNCHANGED <<loaded, result>>
  /\ UNCHANGED <<seqVars, file, temp, mu, pending, crashed, acked>>

\* tasks, err := js.load() in a mutating handler
Load(p) ==
  /\ ~crashed
  /\ pc[p] = "load"
  /\ IF file.state = "complete"
     THEN /\ loaded' = [loaded EXCEPT ![p] = load(file.data)]
          /\ pc' = [pc EXCEPT ![p] = "modify"]
          /\ UNCHANGED result
     ELSE /\ result' = [result EXCEPT ![p] = [err |-> ErrParse, val |-> <<>>]]
          /\ pc' = [pc EXCEPT ![p] = "Unlock"]
          /\ UNCHANGED loaded
  /\ UNCHANGED <<seqVars, file, temp, mu, call, pending, crashed, acked>>

\* the handler's change of the loaded list; not found returns without saving
Modify(p) ==
  /\ ~crashed
  /\ pc[p] = "modify"
  /\ LET r == CASE call[p].op = "Create" -> CreateModify(loaded[p], call[p].arg[1])
                [] call[p].op = "Update" -> UpdateModify(loaded[p], call[p].arg[1])
                [] OTHER -> DeleteModify(loaded[p], call[p].id)
     IN IF r.err = ErrNil
        THEN /\ pending' = [pending EXCEPT ![p] = r.tasks]
             /\ pc' = [pc EXCEPT ![p] = "OpenTemp"]
             /\ UNCHANGED result
        ELSE /\ result' = [result EXCEPT ![p] = [err |-> r.err, val |-> <<>>]]
             /\ pc' = [pc EXCEPT ![p] = "Unlock"]
             /\ UNCHANGED pending
  /\ UNCHANGED <<seqVars, file, temp, mu, call, loaded, crashed, acked>>

\* save as a plausible slip: os.WriteFile on js.filepath itself
OpenMain(p) ==
  /\ ~crashed
  /\ pc[p] = "OpenTemp"
  /\ file' = PartialFile
  /\ pc' = [pc EXCEPT ![p] = "WriteTemp"]
  /\ UNCHANGED <<seqVars, temp, mu, call, loaded, pending, result, crashed, acked>>

\* save: os.WriteFile(tempFile, ...) creates or truncates the temporary file
OpenTemp(p) ==
  /\ ~crashed
  /\ pc[p] = "OpenTemp"
  /\ temp' = PartialFile
  /\ pc' = [pc EXCEPT ![p] = "WriteTemp"]
  /\ UNCHANGED <<seqVars, file, mu, call, loaded, pending, result, crashed, acked>>

\* save: os.WriteFile writes the marshalled list and closes the file
WriteTemp(p) ==
  /\ ~crashed
  /\ pc[p] = "WriteTemp"
  /\ temp' = CompleteFile(pending[p])
  /\ pc' = [pc EXCEPT ![p] = "Rename"]
  /\ UNCHANGED <<seqVars, file, mu, call, loaded, pending, result, crashed, acked>>

\* save as a plausible slip: the temporary file is copied over the main file
\* and left behind
RenameCopy(p) ==
  /\ ~crashed
  /\ pc[p] = "Rename"
  /\ file' = temp
  /\ result' = [result EXCEPT ![p] = NoResult]
  /\ pc' = [pc EXCEPT ![p] = "Unlock"]
  /\ UNCHANGED <<seqVars, temp, mu, call, loaded, pending, crashed, acked>>

\* save: os.Rename(tempFile, js.filepath) replaces the main file in one step
Rename(p) ==
  /\ ~crashed
  /\ pc[p] = "Rename"
  /\ file' = temp
  /\ temp' = AbsentFile
  /\ result' = [result EXCEPT ![p] = NoResult]
  /\ pc' = [pc EXCEPT ![p] = "Unlock"]
  /\ UNCHANGED <<seqVars, mu, call, loaded, pending, crashed, acked>>

\* the deferred js.mu.Unlock() and the return to the caller
Unlock(p) ==
  /\ ~crashed
  /\ pc[p] = "Unlock"
  /\ mu' = [mu EXCEPT !.writer = NoProc]
  /\ pc' = [pc EXCEPT ![p] = "idle"]
  /\ call' = [call EXCEPT ![p] = NoOp]
  /\ loaded' = [loaded EXCEPT ![p] = <<>>]
  /\ pending' = [pending EXCEPT ![p] = <<>>]
  /\ result' = [result EXCEPT ![p] = NoResult]
  /\ UNCHANGED <<seqVars, file, temp, crashed>>

\* js.load() in GetAll / GetByID, and GetByID's search
RLoad(p) ==
  /\ ~crashed
  /\ pc[p] = "rload"
  /\ IF file.state = "complete"
     THEN LET tasks == load(file.data) IN
          /\ loaded' = [loaded EXCEPT ![p] = tasks]
          /\ result' = [result EXCEPT ![p] =
                          IF call[p].op = "GetAll"
                          THEN [err |-> ErrNil, val |-> tasks]
                          ELSE FindByID(tasks, call[p].id)]
     ELSE /\ result' = [result EXCEPT ![p] = [err |-> ErrParse, val |-> <<>>]]
          /\ UNCHANGED loaded
  /\ pc' = [pc EXCEPT ![p] = "RUnlock"]
  /\ UNCHANGED <<seqVars, file, temp, mu, call, pending, crashed, acked>>

\* the deferred js.mu.RUnlock() and the return to the caller
RUnlock(p) ==
  /\ ~crashed
  /\ pc[p] = "RUnlock"
  /\ mu' = [mu EXCEPT !.readers = @ \ {p}]
  /\ pc' = [pc EXCEPT ![p] = "idle"]
  /\ call' = [call EXCEPT ![p] = NoOp]
  /\ loaded' = [loaded EXCEPT ![p] = <<>>]
  /\ result' = [result EXCEPT ![p] = NoResult]
  /\ UNCHANGED <<seqVars, file, temp, pending, crashed, acked>>

\* the process is killed: every caller stops where it is, the files stay
Crash ==
  /\ ~crashed
  /\ crashed' = TRUE
  /\ UNCHANGED <<seqVars, file, temp, mu, pc, call, loaded, pending, result, acked>>

\* a new process opens the same path: NewJSONStorage, fresh lock and callers
Restart ==
  /\ crashed
  /\ crashed' = FALSE
  /\ file' = NewJSONStorage(file)
  /\ mu' = [writer |-> NoProc, readers |-> {}]
  /\ pc' = [p \in Procs |-> "idle"]
  /\ call' = [p \in Procs |-> NoOp]
  /\ loaded' = [p \in Procs |-> <<>>]
  /\ pending' = [p \in Procs |-> <<>>]
  /\ result' = [p \in Procs |-> NoResult]
  /\ UNCHANGED <<seqVars, temp, acked>>

\* records in the file plus the Creates on their way
Room == Len(file.data) + Cardinality({q \in Procs : call[q].op = "Create"})

(***************************************************************************)
(* SpecFile: any operations by concurrent callers of one instance.         *)
(***************************************************************************)
InitFile == InitFileWith(<<>>)

Calls(callers) ==
  \/ \E p \in callers, t \in FTasks : Room < MaxFile /\ CallWrite(p, "Create", <<t>>, t.id)
  \/ \E p \in callers, t \in FTasks : CallWrite(p, "Update", <<t>>, t.id)
  \/ \E p \in callers, id \in Ids : CallWrite(p, "Delete", <<>>, id)
  \/ \E p \in callers : CallRead(p, "GetAll", "")
  \/ \E p \in callers, id \in Ids : CallRead(p, "GetByID", id)

Steps ==
  \/ \E p \in Procs : Lock(p)
  \/ \E p \in Procs : LockWait(p)
  \/ \E p \in Procs : RLock(p)
  \/ \E p \in Procs : Load(p)
  \/ \E p \in Procs : Modify(p)
  \/ \E p \in Procs : OpenTemp(p)
  \/ \E p \in Procs : WriteTemp(p)
  \/ \E p \in Procs : Rename(p)
  \/ \E p \in Procs : Unlock(p) /\ UNCHANGED acked
  \/ \E p \in Procs : RLoad(p)
  \/ \E p \in Procs : RUnlock(p)

NextFile == Calls(Procs) \/ Steps

SpecFile == InitFile /\ [][NextFile]_vars

(***************************************************************************)
(* SpecCrash: the same operations by two callers, with the process killed  *)
(* at any point and a new process opening the same path.                   *)
(***************************************************************************)
CrashProcs == {"p1", "p2"}

NextCrash == Calls(CrashProcs) \/ Steps \/ Crash \/ Restart

SpecCrash == InitFile /\ [][NextCrash]_vars

(***************************************************************************)
(* SpecCreates: TestJSONStorage_ConcurrentAccess.  Creates with pairwise   *)
(* distinct ids run concurrently with GetAll calls; acked collects the     *)
(* tasks whose Create returned nil.                                        *)
(***************************************************************************)
InitCreates == \E pre \in {<<>>, <<PreTask>>} : InitFileWith(pre)

IdInUse(id) ==
  \/ \E q \in Procs : call[q].op = "Create" /\ call[q].id = id
  \/ \E t \in acked : t.id = id

NextCreates ==
  \/ \E p \in Procs, t \in FTasks : ~IdInUse(t.id) /\ CallWrite(p, "Create", <<t>>, t.id)
  \/ \E p \in Procs : CallRead(p, "GetAll", "")
  \/ \E p \in Procs : Lock(p)
  \/ \E p \in Procs : LockWait(p)
  \/ \E p \in Procs : RLock(p)
  \/ \E p \in Procs : Load(p)
  \/ \E p \in Procs : Modify(p)
  \/ \E p \in Procs : OpenTemp(p)
  \/ \E p \in Procs : WriteTemp(p)
  \/ \E p \in Procs : Rename(p)
  \/ \E p \in Procs :
       /\ Unlock(p)
       /\ acked' = IF result[p].err = ErrNil THEN acked \cup {call[p].arg[1]} ELSE acked
  \/ \E p \in Procs : RLoad(p)
  \/ \E p \in Procs : RUnlock(p)

SpecCreates == InitCreates /\ [][NextCreates]_vars

(***************************************************************************)
(* SpecCorrupt: the operations by two callers of an instance whose file    *)
(* something else overwrites with invalid JSON between two calls.          *)
(***************************************************************************)
Corrupt ==
  /\ ~crashed
  /\ \A p \in Procs : pc[p] = "idle"
  /\ file.state = "complete"
  /\ file' = CorruptFile
  /\ UNCHANGED <<seqVars, temp, mu, pc, call, loaded, pending, result, crashed, acked>>

NextCorrupt == Calls(CrashProcs) \/ Steps \/ Corrupt

SpecCorrupt == InitFile /\ [][NextCorrupt]_vars

(***************************************************************************)
(* SpecLive: callers of one instance on every return path: the file can    *)
(* become unparsable between calls, and the write of the temporary file    *)
(* and the rename can fail.  Every goroutine that can take a step          *)
(* eventually takes it; sync.RWMutex hands the lock to a goroutine that    *)
(* keeps waiting for it (a waiting writer holds back new readers, Unlock   *)
(* lets the waiting readers in, and a starving waiter is handed the mutex  *)
(* directly).                                                              *)
(***************************************************************************)
ErrWrite == "write failed"

\* save: os.WriteFile fails, save returns its error
WriteTempFail(p) ==
  /\ ~crashed
  /\ pc[p] = "WriteTemp"
  /\ result' = [result EXCEPT ![p] = [err |-> ErrWrite, val |-> <<>>]]
  /\ pc' = [pc EXCEPT ![p] = "Unlock"]
  /\ UNCHANGED <<seqVars, file, temp, mu, call, loaded, pending, crashed, acked>>

\* save: os.Rename fails, save returns its error
RenameFail(p) ==
  /\ ~crashed
  /\ pc[p] = "Rename"
  /\ result' = [result EXCEPT ![p] = [err |-> ErrWrite, val |-> <<>>]]
  /\ pc' = [pc EXCEPT ![p] = "Unlock"]
  /\ UNCHANGED <<seqVars, file, temp, mu, call, loaded, pending, crashed, acked>>

\* the steps of caller p that wait for nothing
Running(p) ==
  \/ Load(p)
  \/ Modify(p)
  \/ OpenTemp(p)
  \/ WriteTemp(p)
  \/ WriteTempFail(p)
  \/ Rename(p)
  \/ RenameFail(p)
  \/ Unlock(p) /\ UNCHANGED acked
  \/ RLoad(p)
  \/ RUnlock(p)

\* the steps of caller p that wait for js.mu
Waiting(p) == Lock(p) \/ LockWait(p) \/ RLock(p)

\* the calls made: Create of one task, Delete of its id (found or not), GetAll
LiveCalls ==
  \/ \E p \in Procs : Room < MaxFile /\ CallWrite(p, "Create", <<BaseTask("t1")>>, "t1")
  \/ \E p \in Procs : CallWrite(p, "Delete", <<>>, "t1")
  \/ \E p \in Procs : CallRead(p, "GetAll", "")

NextLive ==
  \/ LiveCalls
  \/ \E p \in Procs : Running(p)
  \/ \E p \in Procs : Waiting(p)
  \/ Corrupt

Fairness ==
  \A p \in Procs :
    /\ WF_vars(Running(p))
    /\ WF_vars(LockWait(p))
    /\ SF_vars(Lock(p))
    /\ SF_vars(RLock(p))

SpecLive == InitFile /\ [][NextLive]_vars /\ Fairness

(***************************************************************************)
(* SpecPair: TestStorageInterface's two implementations side by side.  The *)
(* same calls go to a JSONStorage and to a SQLiteStorage; store and ret    *)
(* hold one value per implementation.                                      *)
(***************************************************************************)
PairTypes == {StorageTypeJSON, StorageTypeSQLite}

InitPair ==
  /\ backend = "json+sqlite"
  /\ store = [b \in PairTypes |-> <<>>]
  /\ ret = [b \in PairTypes |-> NoCall]
  /\ FileIdle

PairCreate(task) ==
  /\ \A b \in PairTypes : Len(store[b]) < MaxTasks
  /\ store' = [b \in PairTypes |-> StorageCreate(b, store[b], task).store]
  /\ ret' = [b \in PairTypes |->
               [op |-> "Create", arg |-> <<task>>, id |-> task.id,
                err |-> StorageCreate(b, store[b], task).err, val |-> <<>>]]
  /\ UNCHANGED <<backend, fileVars>>

PairGetAll ==
  /\ \E vj \in StorageGetAll(StorageTypeJSON, store[StorageTypeJSON]),
        vs \in StorageGetAll(StorageTypeSQLite, store[StorageTypeSQLite]) :
       ret' = [b \in PairTypes |->
                 [op |-> "GetAll", arg |-> <<>>, id |-> "", err |-> ErrNil,
                  val |-> IF b = StorageTypeJSON THEN vj ELSE vs]]
  /\ UNCHANGED <<backend, store, fileVars>>

PairGetByID(id) ==
  /\ ret' = [b \in PairTypes |->
               [op |-> "GetByID", arg |-> <<>>, id |-> id,
                err |-> StorageGetByID(b, store[b], id).err,
                val |-> StorageGetByID(b, store[b], id).val]]
  /\ UNCHANGED <<backend, store, fileVars>>

PairUpdate(task) ==
  /\ store' = [b \in PairTypes |-> StorageUpdate(b, store[b], task).store]
  /\ ret' = [b \in PairTypes |->
               [op |-> "Update", arg |-> <<task>>, id |-> task.id,
                err |-> StorageUpdate(b, store[b], task).err, val |-> <<>>]]
  /\ UNCHANGED <<backend, fileVars>>

PairDelete(id) ==
  /\ store' = [b \in PairTypes |-> StorageDelete(b, store[b], id).store]
  /\ ret' = [b \in PairTypes |->
               [op |-> "Delete", arg |-> <<>>, id |-> id,
                err |-> StorageDelete(b, store[b], id).err, val |-> <<>>]]
  /\ UNCHANGED <<backend, fileVars>>

NextPair ==
  \/ \E task \in Tasks : PairCreate(task)
  \/ PairGetAll
  \/ \E id \in Ids : PairGetByID(id)
  \/ \E task \in Tasks : PairUpdate(task)
  \/ \E id \in Ids : PairDelete(id)

SpecPair == InitPair /\ [][NextPair]_vars

(***************************************************************************)
(* The storage factory: StorageConfig, ValidateConfig, LoadConfigFromEnv,  *)
(* NewStorage.  Strings are strings; a URI is a sequence (empty for ""),   *)
(* so that the default built from host and port can be written down.       *)
(***************************************************************************)
UnsupportedType == "redis"
ConfigTypes == StorageTypes \cup {UnsupportedType}
FilePaths == {"", "tasks.json"}
Hosts == {"", "localhost"}
Ports == {-1, 0, 5432}
Users == {"", "gotask"}
DBNames == {"", "gotask"}
URIs == {<<>>, <<"mongodb://", "mongo", 27017>>}
Collections == {"", "tasks"}
\* time.Duration in seconds; 0 is the field left unset
ConnectTimeouts == {0, 10}
QueryTimeouts == {1, 5}

StorageConfigs ==
  [Type : ConfigTypes, FilePath : FilePaths, Host : Hosts, Port : Ports,
   User : Users, DBName : DBNames, URI : URIs, Collection : Collections,
   ConnectTimeout : ConnectTimeouts, QueryTimeout : QueryTimeouts]

ErrFilePathRequired == "file path is required"
ErrHostRequired == "host is required"
ErrUserRequired == "user is required"
ErrDBNameRequired == "database name is required"
ErrPortRequired == "valid port is required"
ErrURIRequired == "URI is required"
ErrCollectionRequired == "collection name is required"
ErrUnsupported == "unsupported storage type"

\* ValidateConfig as a plausible slip: a port of 0 passes
ValidateConfigPortZero(config) ==
  CASE config.Type \in {StorageTypeJSON, StorageTypeSQLite} ->
         IF config.FilePath = "" THEN ErrFilePathRequired ELSE ErrNil
    [] config.Type \in {StorageTypePostgreSQL, StorageTypeMySQL} ->
         IF config.Host = "" THEN ErrHostRequired
         ELSE IF config.User = "" THEN ErrUserRequired
         ELSE IF config.DBName = "" THEN ErrDBNameRequired
         ELSE IF config.Port < 0 THEN ErrPortRequired
         ELSE ErrNil
    [] config.Type = StorageTypeMongoDB ->
         IF config.URI = <<>> THEN ErrURIRequired
         ELSE IF config.DBName = "" THEN ErrDBNameRequired
         ELSE IF config.Collection = "" THEN ErrCollectionRequired
         ELSE ErrNil
    [] OTHER -> ErrUnsupported

\* ValidateConfig: the first missing field of the kind, in the code's order
ValidateConfig(config) ==
  CASE config.Type \in {StorageTypeJSON, StorageTypeSQLite} ->
         IF config.FilePath = "" THEN ErrFilePathRequired ELSE ErrNil
    [] config.Type \in {StorageTypePostgreSQL, StorageTypeMySQL} ->
         IF config.Host = "" THEN ErrHostRequired
         ELSE IF config.User = "" THEN ErrUserRequired
         ELSE IF config.DBName = "" THEN ErrDBNameRequired
         ELSE IF config.Port <= 0 THEN ErrPortRequired
         ELSE ErrNil
    [] config.Type = StorageTypeMongoDB ->
         IF config.URI = <<>> THEN ErrURIRequired
         ELSE IF config.DBName = "" THEN ErrDBNameRequired
         ELSE IF config.Collection = "" THEN ErrCollectionRequired
         ELSE ErrNil
    [] OTHER -> ErrUnsupported

\* GetSupportedStorageTypes: the list of the five kinds
GetSupportedStorageTypes ==
  <<StorageTypeJSON, StorageTypeSQLite, StorageTypePostgreSQL, StorageTypeMySQL,
    StorageTypeMongoDB>>

\* IsStorageTypeSupported: the loop over that list
IsStorageTypeSupported(storageType) ==
  \E i \in 1..Len(GetSupportedStorageTypes) :
    GetSupportedStorageTypes[i] = storageType

\* errors of the constructors: the file system's, the driver's or server's
ErrIO == "no such file or directory"
ErrConnect == "failed to connect"
ErrIndexes == "failed to create indexes"
ErrInvalidPort == "invalid DB_PORT"
ErrInvalidConnectTimeout == "invalid MONGODB_CONNECT_TIMEOUT"
ErrInvalidQueryTimeout == "invalid MONGODB_QUERY_TIMEOUT"
ErrLoadConfig == "failed to load config from environment"

IsInvalidConfig(err) ==
  err \in {ErrFilePathRequired, ErrHostRequired, ErrUserRequired, ErrDBNameRequired,
           ErrPortRequired, ErrURIRequired, ErrCollectionRequired, ErrUnsupported,
           ErrInvalidPort, ErrInvalidConnectTimeout, ErrInvalidQueryTimeout,
           ErrLoadConfig}

\* what a constructor call did: the error, the kind of backend returned
\* ("none" with an error), whether a connection to a server was attempted,
\* and the files it created or wrote
Outcome(err, kind, dialed, created) ==
  [err |-> err, kind |-> IF err = ErrNil THEN kind ELSE "none",
   dialed |-> dialed, created |-> created]

\* NewJSONStorage(path) as the factory sees it.  With path "" os.Stat fails
\* with not-exist, save writes ".tmp" (when the directory allows) and the
\* rename to "" fails.  Otherwise the file is created when absent.
OpenJSON(path) ==
  IF path = ""
  THEN {Outcome(ErrIO, StorageTypeJSON, FALSE, {".tmp"}),
        Outcome(ErrIO, StorageTypeJSON, FALSE, {})}
  ELSE {Outcome(ErrNil, StorageTypeJSON, FALSE, {path}),
        Outcome(ErrNil, StorageTypeJSON, FALSE, {}),
        Outcome(ErrIO, StorageTypeJSON, FALSE, {})}

\* NewSQLiteStorage(path): sql.Open and CREATE TABLE IF NOT EXISTS; the
\* engine takes "" for a private temporary database
OpenSQLite(path) ==
  IF path = ""
  THEN {Outcome(ErrNil, StorageTypeSQLite, FALSE, {}),
        Outcome(ErrIO, StorageTypeSQLite, FALSE, {})}
  ELSE {Outcome(ErrNil, StorageTypeSQLite, FALSE, {path}),
        Outcome(ErrNil, StorageTypeSQLite, FALSE, {}),
        Outcome(ErrIO, StorageTypeSQLite, FALSE, {})}

\* NewPostgreSQLStorage / NewMySQLStorage: the DSN is formatted from the
\* fields as they are and gorm.Open connects; a driver may refuse a DSN with
\* an empty or non-positive field before it dials
OpenGorm(config) ==
  {Outcome(ErrNil, config.Type, TRUE, {}),
   Outcome(ErrConnect, config.Type, TRUE, {})}
  \cup IF config.Host = "" \/ config.User = "" \/ config.DBName = "" \/ config.Port <= 0
       THEN {Outcome(ErrConnect, config.Type, FALSE, {})}
       ELSE {}

\* NewMongoDBStorage: ApplyURI's parse error comes out of mongo.Connect;
\* otherwise Connect and Ping dial under a context that expires after
\* config.ConnectTimeout (at once when that is 0), and createIndexes needs a
\* namespace
OpenMongoDB(config) ==
  IF config.URI = <<>>
  THEN {Outcome(ErrConnect, StorageTypeMongoDB, FALSE, {})}
  ELSE IF config.ConnectTimeout <= 0
  THEN {Outcome(ErrConnect, StorageTypeMongoDB, TRUE, {})}
  ELSE IF config.DBName = "" \/ config.Collection = ""
  THEN {Outcome(ErrConnect, StorageTypeMongoDB, TRUE, {}),
        Outcome(ErrIndexes, StorageTypeMongoDB, TRUE, {})}
  ELSE {Outcome(ErrNil, StorageTypeMongoDB, TRUE, {}),
        Outcome(ErrConnect, StorageTypeMongoDB, TRUE, {})}

\* NewStorage as a plausible slip: the switch has no case for mongodb
NewStorageNoMongoDB(config) ==
  CASE config.Type = StorageTypeJSON -> OpenJSON(config.FilePath)
    [] config.Type = StorageTypeSQLite -> OpenSQLite(config.FilePath)
    [] config.Type \in {StorageTypePostgreSQL, StorageTypeMySQL} -> OpenGorm(config)
    [] OTHER -> {Outcome(ErrUnsupported, "none", FALSE, {})}

\* NewStorage: the switch on config.Type, straight to the constructor
NewStorage(config) ==
  CASE config.Type = StorageTypeJSON -> OpenJSON(config.FilePath)
    [] config.Type = StorageTypeSQLite -> OpenSQLite(config.FilePath)
    [] config.Type \in {StorageTypePostgreSQL, StorageTypeMySQL} -> OpenGorm(config)
    [] config.Type = StorageTypeMongoDB -> OpenMongoDB(config)
    [] OTHER -> {Outcome(ErrUnsupported, "none", FALSE, {})}

\* initializeStorage of cmd/server: ValidateConfig, then NewStorage
initializeStorage(config) ==
  IF ValidateConfig(config) # ErrNil
  THEN {Outcome(ValidateConfig(config), "none", FALSE, {})}
  ELSE NewStorage(config)

\* the environment variables LoadConfigFromEnv reads; "" (for the URI <<>>)
\* is unset or empty, which getEnvOrDefault does not tell apart
Envs ==
  [STORAGE_TYPE : {""} \cup ConfigTypes, STORAGE_FILE_PATH : FilePaths,
   DB_HOST : Hosts, DB_USER : Users, DB_NAME : DBNames,
   DB_PORT : {"", "5432", "0", "abc"}, MONGODB_URI : URIs,
   MONGODB_COLLECTION : Collections, MONGODB_CONNECT_TIMEOUT : {"", "1s", "bad"},
   MONGODB_QUERY_TIMEOUT : {"", "1s", "bad"}]

getEnvOrDefault(value, defaultValue) ==
  IF value = "" THEN defaultValue ELSE value

\* the port's parse as a plausible slip: the error of Atoi is dropped
AtoiLenient(str) ==
  CASE str = "5432" -> [n |-> 5432, ok |-> TRUE]
    [] str = "0" -> [n |-> 0, ok |-> TRUE]
    [] OTHER -> [n |-> 0, ok |-> TRUE]

\* strconv.Atoi on the port strings used here
Atoi(str) ==
  CASE str = "5432" -> [n |-> 5432, ok |-> TRUE]
    [] str = "0" -> [n |-> 0, ok |-> TRUE]
    [] OTHER -> [n |-> 0, ok |-> FALSE]

\* time.ParseDuration on the timeout strings used here
ParseDuration(str) ==
  CASE str = "10s" -> [d |-> 10, ok |-> TRUE]
    [] str = "5s" -> [d |-> 5, ok |-> TRUE]
    [] str = "1s" -> [d |-> 1, ok |-> TRUE]
    [] OTHER -> [d |-> 0, ok |-> FALSE]

\* LoadConfigFromEnv: defaults, the port (parsed, or the default of the
\* kind, or the zero value), the URI built from host and port, the timeouts
LoadConfigFromEnv(env) ==
  LET storageType == getEnvOrDefault(env.STORAGE_TYPE, StorageTypeJSON)
      host == getEnvOrDefault(env.DB_HOST, "localhost")
      port == IF env.DB_PORT # ""
              THEN Atoi(env.DB_PORT).n
              ELSE CASE storageType = StorageTypePostgreSQL -> 5432
                     [] storageType = StorageTypeMySQL -> 3306
                     [] storageType = StorageTypeMongoDB -> 27017
                     [] OTHER -> 0
      connectTimeout ==
        ParseDuration(getEnvOrDefault(env.MONGODB_CONNECT_TIMEOUT, "10s"))
      queryTimeout == ParseDuration(getEnvOrDefault(env.MONGODB_QUERY_TIMEOUT, "5s"))
      config == [Type |-> storageType,
                 FilePath |-> getEnvOrDefault(env.STORAGE_FILE_PATH, "tasks.json"),
                 Host |-> host,
                 Port |-> port,
                 User |-> getEnvOrDefault(env.DB_USER, ""),
                 DBName |-> getEnvOrDefault(env.DB_NAME, "gotask"),
                 URI |-> IF env.MONGODB_URI = <<>>
                         THEN <<"mongodb://", host, port>>
                         ELSE env.MONGODB_URI,
                 Collection |-> getEnvOrDefault(env.MONGODB_COLLECTION, "tasks"),
                 ConnectTimeout |-> connectTimeout.d,
                 QueryTimeout |-> queryTimeout.d]
  IN IF env.DB_PORT # "" /\ ~Atoi(env.DB_PORT).ok
     THEN [config |-> <<>>, err |-> ErrInvalidPort]
     ELSE IF ~connectTimeout.ok
     THEN [config |-> <<>>, err |-> ErrInvalidConnectTimeout]
     ELSE IF ~queryTimeout.ok
     THEN [config |-> <<>>, err |-> ErrInvalidQueryTimeout]
     ELSE [config |-> <<config>>, err |-> ErrNil]

\* NewStorageFromEnv: LoadConfigFromEnv, then NewStorage
NewStorageFromEnv(env) ==
  IF LoadConfigFromEnv(env).err # ErrNil
  THEN {Outcome(ErrLoadConfig, "none", FALSE, {})}
  ELSE NewStorage(LoadConfigFromEnv(env).config[1])

\* the calls of the Storage contract
StorageOps == {"Create", "GetAll", "GetByID", "Update", "Delete"}

\* MongoDBStorage: the timeout of the context each call runs under, in
\* seconds: the constructor's from the configuration, the others' as written
MongoTimeout(op, config) ==
  CASE op = "Connect" -> config.ConnectTimeout
    [] op = "GetAll" -> 10
    [] OTHER -> 5

(***************************************************************************)
(* SpecFactory: one configuration or one environment, and the factory's    *)
(* functions called on it.  ret.cfg is the configuration given or loaded,  *)
(* ret.env the environment; backend is the kind of backend constructed.    *)
(***************************************************************************)
NoFactoryCall(cfg, env) ==
  [op |-> "none", cfg |-> cfg, env |-> env, err |-> ErrNil, kind |-> "none",
   dialed |-> FALSE, created |-> {}, supported |-> FALSE, timeout |-> 0]

InitFactory ==
  /\ backend = "none"
  /\ store = <<>>
  /\ \/ \E config \in StorageConfigs : ret = NoFactoryCall(<<config>>, <<>>)
     \/ \E env \in Envs : ret = NoFactoryCall(<<>>, <<env>>)
  /\ FileIdle

Returned(op, cfg, o) ==
  /\ ret' = [op |-> op, cfg |-> cfg, env |-> ret.env, err |-> o.err,
             kind |-> o.kind, dialed |-> o.dialed, created |-> o.created,
             supported |-> FALSE,
             timeout |-> IF cfg # <<>> /\ o.dialed /\ cfg[1].Type = StorageTypeMongoDB
                         THEN MongoTimeout("Connect", cfg[1]) ELSE 0]
  /\ backend' = o.kind
  /\ UNCHANGED <<store, fileVars>>

CallValidateConfig ==
  /\ ret.cfg # <<>>
  /\ Returned("ValidateConfig", ret.cfg,
              Outcome(ValidateConfig(ret.cfg[1]), "none", FALSE, {}))

\* IsStorageTypeSupported(config.Type); the answer is ret.supported
CallIsStorageTypeSupported ==
  /\ ret.cfg # <<>>
  /\ ret' = [NoFactoryCall(ret.cfg, ret.env) EXCEPT
               !.op = "IsStorageTypeSupported",
               !.supported = IsStorageTypeSupported(ret.cfg[1].Type)]
  /\ UNCHANGED <<backend, store, fileVars>>

\* a call of the contract on the MongoDBStorage the factory returned;
\* ret.timeout is the timeout of its context
CallMongoDB(op) ==
  /\ backend = StorageTypeMongoDB
  /\ ret.cfg # <<>>
  /\ ret' = [NoFactoryCall(ret.cfg, ret.env) EXCEPT
               !.op = op, !.kind = backend,
               !.timeout = MongoTimeout(op, ret.cfg[1])]
  /\ UNCHANGED <<backend, store, fileVars>>

CallNewStorage ==
  /\ ret.cfg # <<>>
  /\ \E o \in NewStorage(ret.cfg[1]) : Returned("NewStorage", ret.cfg, o)

CallInitializeStorage ==
  /\ ret.cfg # <<>>
  /\ \E o \in initializeStorage(ret.cfg[1]) : Returned("initializeStorage", ret.cfg, o)

CallLoadConfigFromEnv ==
  /\ ret.env # <<>>
  /\ Returned("LoadConfigFromEnv", LoadConfigFromEnv(ret.env[1]).config,
              Outcome(LoadConfigFromEnv(ret.env[1]).err, "none", FALSE, {}))

CallNewStorageFromEnv ==
  /\ ret.env # <<>>
  /\ \E o \in NewStorageFromEnv(ret.env[1]) :
       Returned("NewStorageFromEnv", LoadConfigFromEnv(ret.env[1]).config, o)

NextFactory ==
  \/ CallValidateConfig
  \/ CallIsStorageTypeSupported
  \/ CallNewStorage
  \/ CallInitializeStorage
  \/ CallLoadConfigFromEnv
  \/ CallNewStorageFromEnv
  \/ \E op \in StorageOps : CallMongoDB(op)

SpecFactory == InitFactory /\ [][NextFactory]_vars

(***************************************************************************)
(* SpecLife: the life of an instance on a path.  file is what the path     *)
(* holds (the JSON file or the SQLite database, data being its records),   *)
(* pc the instance: whether the constructor returned one, whether Close    *)
(* has returned, and the state of its *sql.DB (JSONStorage has none).      *)
(* loaded keeps, for the properties, the records stored when Close         *)
(* returned, until a call changes them.                                    *)
(***************************************************************************)
LifeTypes == {StorageTypeJSON, StorageTypeSQLite}

\* a path whose parent directory does not exist
NoDirFile == [state |-> "nodir", data |-> <<>>]
\* a path that holds the stored form of tasks
StoredFile(b, tasks) ==
  [state |-> "complete",
   data |-> IF b = StorageTypeJSON THEN Marshal(tasks) ELSE MapSeq(tasks, ToRow)]

\* database/sql: every call on a DB after Close
ErrDBClosed == "sql: database is closed"

NoInstance == [inst |-> "none", closed |-> FALSE, db |-> "none"]

\* NewJSONStorage's error: save fails when the directory is missing
NewJSONStorageErr(f) == IF f.state = "nodir" THEN ErrIO ELSE ErrNil

\* NewSQLiteStorage as a plausible slip: the table is created anew
NewSQLiteStorageRecreate(f) ==
  IF f.state = "nodir" THEN f ELSE [state |-> "complete", data |-> <<>>]

\* NewSQLiteStorage: sql.Open opens nothing; CREATE TABLE IF NOT EXISTS
\* creates the database file when absent and keeps an existing table
NewSQLiteStorage(f) ==
  IF f.state = "absent" THEN [state |-> "complete", data |-> <<>>] ELSE f

NewSQLiteStorageErr(f) == IF f.state = "nodir" THEN ErrIO ELSE ErrNil

\* SQLiteStorage.Close as a plausible slip: returns nil like JSONStorage's
SQLiteCloseNoOp(i) == [i EXCEPT !.closed = TRUE]

\* JSONStorage.Close: return nil
JSONClose(i) == [i EXCEPT !.closed = TRUE]

\* SQLiteStorage.Close: s.db.Close()
SQLiteClose(i) == [i EXCEPT !.closed = TRUE, !.db = "closed"]

\* a call on this instance fails in database/sql before it reaches the file
DBClosed == backend = StorageTypeSQLite /\ pc.db = "closed"

InitLife ==
  /\ backend \in LifeTypes
  /\ store = <<>>
  /\ ret = NoCall
  /\ file \in {NoDirFile, AbsentFile, StoredFile(backend, <<PreTask>>)}
  /\ temp = <<>>
  /\ mu = <<>>
  /\ pc = NoInstance
  /\ call = <<>>
  /\ loaded = <<>>
  /\ pending = <<>>
  /\ result = <<>>
  /\ crashed = FALSE
  /\ acked = {}
  /\ now = 0

lifeFrame == <<backend, store, temp, mu, call, pending, result, crashed, acked, now>>

\* NewJSONStorage(path) or NewSQLiteStorage(path), first or after Close
LifeNew ==
  /\ pc.inst = "none" \/ pc.closed
  /\ LET err == IF backend = StorageTypeJSON
                THEN NewJSONStorageErr(file) ELSE NewSQLiteStorageErr(file)
     IN /\ file' = IF backend = StorageTypeJSON
                   THEN NewJSONStorage(file) ELSE NewSQLiteStorage(file)
        /\ pc' = IF err # ErrNil THEN NoInstance
                 ELSE [inst |-> "made", closed |-> FALSE,
                       db |-> IF backend = StorageTypeSQLite THEN "open" ELSE "none"]
        /\ ret' = [NoCall EXCEPT !.op = "New", !.err = err]
  /\ UNCHANGED <<lifeFrame, loaded>>

LifeClose ==
  /\ pc.inst = "made"
  /\ pc' = IF backend = StorageTypeJSON THEN JSONClose(pc) ELSE SQLiteClose(pc)
  /\ ret' = [NoCall EXCEPT !.op = "Close"]
  /\ loaded' = <<Decode(backend, file.data)>>
  /\ UNCHANGED <<lifeFrame, file>>

\* a Create, Update or Delete on the instance; r is what the backend does
LifeWrite(op, arg, id, r) ==
  /\ pc.inst = "made"
  /\ file' = IF DBClosed THEN file ELSE [file EXCEPT !.data = r.store]
  /\ ret' = [op |-> op, arg |-> arg, id |-> id, val |-> <<>>,
             err |-> IF DBClosed THEN ErrDBClosed ELSE r.err]
  /\ loaded' = IF file' = file THEN loaded ELSE <<>>
  /\ UNCHANGED <<lifeFrame, pc>>

LifeCreate(task) ==
  /\ Len(file.data) < MaxFile
  /\ LifeWrite("Create", <<task>>, task.id, StorageCreate(backend, file.data, task))

LifeUpdate(task) ==
  LifeWrite("Update", <<task>>, task.id, StorageUpdate(backend, file.data, task))

LifeDelete(id) ==
  LifeWrite("Delete", <<>>, id, StorageDelete(backend, file.data, id))

LifeGetAll ==
  /\ pc.inst = "made"
  /\ IF DBClosed
     THEN ret' = [NoCall EXCEPT !.op = "GetAll", !.err = ErrDBClosed]
     ELSE \E v \in StorageGetAll(backend, file.data) :
            ret' = [NoCall EXCEPT !.op = "GetAll", !.val = v]
  /\ UNCHANGED <<lifeFrame, file, pc, loaded>>

LifeGetByID(id) ==
  /\ pc.inst = "made"
  /\ LET r == StorageGetByID(backend, file.data, id) IN
     ret' = IF DBClosed
            THEN [NoCall EXCEPT !.op = "GetByID", !.id = id, !.err = ErrDBClosed]
            ELSE [NoCall EXCEPT !.op = "GetByID", !.id = id, !.err = r.err,
                                !.val = r.val]
  /\ UNCHANGED <<lifeFrame, file, pc, loaded>>

NextLife ==
  \/ LifeNew
  \/ LifeClose
  \/ \E task \in FTasks : LifeCreate(task)
  \/ \E task \in FTasks : LifeUpdate(task)
  \/ \E id \in Ids : LifeDelete(id)
  \/ LifeGetAll
  \/ \E id \in Ids : LifeGetByID(id)

SpecLife == InitLife /\ [][NextLife]_vars

(***************************************************************************)
(* SpecService: task.Service over one backend.  ret is the service call:   *)
(* its arguments, what it returned and, in calls, the storage calls it     *)
(* made with their errors.  A storage call can fail for reasons of its     *)
(* own (the server is gone, the disk is full).  acked holds the tasks      *)
(* CreateTask returned.                                                    *)
(***************************************************************************)
\* the titles callers pass: empty, blank, plain, with a leading blank
ServiceTitles == {"", " ", "a", " a"}

\* the due dates callers pass: none, or a time
ServiceDueDates == {<<>>, <<1>>}

\* strings.TrimSpace on those titles
TrimSpace(str) ==
  CASE str = " " -> ""
    [] str = " a" -> "a"
    [] OTHER -> str

\* CreateTask's test as a plausible slip: the title is not trimmed
EmptyTitleNoTrim(title) == title = ""

\* CreateTask's test of the title
EmptyTitle(title) == TrimSpace(title) = ""

ErrEmptyTitle == "task title cannot be empty"
\* a storage call that failed for reasons of its own
ErrStorage == "storage error"
\* sqlDB.Ping / client.Ping failed
ErrPing == "ping failed"

\* the clock's readings; generateID formats the reading, so the id is the
\* reading's own
generateID(t) == IF t = 1 THEN "t1" ELSE "t2"

\* the assertion s.storage.(interface{ HealthCheck() error }) as a plausible
\* slip: taken to hold for every backend
HasHealthCheckAll(b) == b \in StorageTypes

\* the backends that have a HealthCheck method
HasHealthCheck(b) ==
  b \in {StorageTypeMySQL, StorageTypePostgreSQL, StorageTypeMongoDB}

NoServiceCall ==
  [op |-> "none", title |-> "", done |-> FALSE, due |-> <<>>, id |-> "",
   err |-> ErrNil, val |-> <<>>, calls |-> <<>>]

StorageCall(method, arg, err) == [method |-> method, arg |-> arg, err |-> err]

InitService ==
  /\ backend \in StorageTypes
  /\ store = <<>>
  /\ ret = NoServiceCall
  /\ file = <<>>
  /\ temp = <<>>
  /\ mu = <<>>
  /\ pc = <<>>
  /\ call = <<>>
  /\ loaded = <<>>
  /\ pending = <<>>
  /\ result = <<>>
  /\ crashed = FALSE
  /\ acked = {}
  /\ now = 1

serviceFrame == <<backend, file, temp, mu, pc, call, loaded, pending, result, crashed>>

\* time passes between two calls
Tick ==
  /\ now + 1 \in Times
  /\ now' = now + 1
  /\ UNCHANGED <<serviceFrame, store, ret, acked>>

\* Service.CreateTask: generateID reads the clock, CreatedAt reads it again
CreateTask(title, dueDate) ==
  IF EmptyTitle(title)
  THEN /\ ret' = [NoServiceCall EXCEPT !.op = "CreateTask", !.title = title,
                                       !.due = dueDate, !.err = ErrEmptyTitle]
       /\ UNCHANGED <<serviceFrame, store, acked, now>>
  ELSE /\ Len(store) < MaxTasks
       /\ Cardinality(acked) < MaxTasks
       /\ \E created \in {t \in Times : t >= now}, fails \in BOOLEAN :
            LET task == [id |-> generateID(now), title |-> title, done |-> FALSE,
                         createdAt |-> created, dueDate |-> dueDate]
                r == IF fails THEN [store |-> store, err |-> ErrStorage]
                     ELSE StorageCreate(backend, store, task)
            IN /\ store' = r.store
               /\ ret' = [NoServiceCall EXCEPT
                            !.op = "CreateTask", !.title = title, !.due = dueDate,
                            !.id = task.id, !.err = r.err,
                            !.val = IF r.err = ErrNil THEN <<task>> ELSE <<>>,
                            !.calls = <<StorageCall("Create", <<task>>, r.err)>>]
               /\ acked' = IF r.err = ErrNil THEN acked \cup {task} ELSE acked
               /\ now' = created
       /\ UNCHANGED serviceFrame

\* UpdateTask's assignments as a plausible slip: the due date is always
\* assigned, so nil clears it
UpdateTaskFieldsNilClears(task, title, done, dueDate) ==
  [task EXCEPT !.title = IF title # "" THEN title ELSE @,
               !.done = done,
               !.dueDate = dueDate]

\* UpdateTask's assignments to the task GetByID returned
UpdateTaskFields(task, title, done, dueDate) ==
  [task EXCEPT !.title = IF title # "" THEN title ELSE @,
               !.done = done,
               !.dueDate = IF dueDate # <<>> THEN dueDate ELSE @]

\* Service.DeleteTask: storage.Delete
DeleteTask(id) ==
  /\ \E fails \in BOOLEAN :
       LET r == IF fails THEN [store |-> store, err |-> ErrStorage]
                ELSE StorageDelete(backend, store, id)
       IN /\ store' = r.store
          /\ ret' = [NoServiceCall EXCEPT
                       !.op = "DeleteTask", !.id = id, !.err = r.err,
                       !.calls = <<StorageCall("Delete", <<id>>, r.err)>>]
  /\ UNCHANGED <<serviceFrame, acked, now>>

\* Service.HealthCheck: the backend's HealthCheck when it has one, else GetAll
HealthCheck ==
  /\ IF HasHealthCheck(backend)
     THEN \E err \in {ErrNil, ErrPing} :
            ret' = [NoServiceCall EXCEPT
                      !.op = "HealthCheck", !.err = err,
                      !.calls = <<StorageCall("HealthCheck", <<>>, err)>>]
     ELSE \E err \in {ErrNil, ErrStorage} :
            ret' = [NoServiceCall EXCEPT
                      !.op = "HealthCheck", !.err = err,
                      !.calls = <<StorageCall("GetAll", <<>>, err)>>]
  /\ UNCHANGED <<serviceFrame, store, acked, now>>

NextService ==
  \/ Tick
  \/ \E title \in ServiceTitles, dueDate \in ServiceDueDates : CreateTask(title, dueDate)
  \/ \E id \in Ids : DeleteTask(id)
  \/ HealthCheck

SpecService == InitService /\ [][NextService]_vars

(***************************************************************************)
(* SpecUpdate: Service.UpdateTask and Service.MarkTaskDone step by step.   *)
(* Each is GetByID, assignments to the task it returned, Update; callers   *)
(* (requests served at once) interleave between the two storage calls,     *)
(* and DeleteTask is one storage call.  The store starts seeded, as in     *)
(* TestService_UpdateTask.  pc is where each caller is, call its           *)
(* arguments, loaded the task its GetByID returned; ret is the service     *)
(* call that returned last.                                                *)
(***************************************************************************)
Callers == {"p1", "p2"}

\* the stored form of tasks on backend b
Encode(b, tasks) ==
  CASE b = StorageTypeJSON -> Marshal(tasks)
    [] b = StorageTypeMongoDB -> MapSeq(tasks, ToDoc)
    [] OTHER -> MapSeq(tasks, ToRow)

\* the seeded tasks: the one the calls are about, and another
SeedTask ==
  [id |-> "t1", title |-> " a", done |-> FALSE, createdAt |-> 1, dueDate |-> <<0>>]
OtherTask == BaseTask("t2")
Seeds == {<<>>, <<SeedTask>>, <<OtherTask, SeedTask>>}

\* the calls made, all with SeedTask's id
UpdateCalls ==
  {[op |-> "UpdateTask", id |-> "t1", title |-> "", done |-> TRUE, due |-> <<>>],
   [op |-> "UpdateTask", id |-> "t1", title |-> "a", done |-> FALSE, due |-> <<1>>],
   [op |-> "MarkTaskDone", id |-> "t1", title |-> "", done |-> TRUE, due |-> <<>>]}

NoUpdateCall == [op |-> "none", id |-> "", title |-> "", done |-> FALSE, due |-> <<>>]

\* MarkTaskDone's assignment to the task GetByID returned
MarkTaskDoneFields(task, done) == [task EXCEPT !.done = done]

\* the task a caller hands to Update
Updated(c, task) ==
  IF c.op = "UpdateTask" THEN UpdateTaskFields(task, c.title, c.done, c.due)
  ELSE MarkTaskDoneFields(task, c.done)

\* the record stored under id, as GetByID reads it back
StoredTask(s, id) == StorageGetByID(backend, s, id).val

InitUpdate ==
  /\ backend \in StorageTypes
  /\ store \in {Encode(backend, seed) : seed \in Seeds}
  /\ ret = [op |-> "none", caller |-> "", err |-> ErrNil, val |-> <<>>]
  /\ file = <<>>
  /\ temp = <<>>
  /\ mu = <<>>
  /\ pc = [p \in Callers |-> "idle"]
  /\ call = [p \in Callers |-> NoUpdateCall]
  /\ loaded = [p \in Callers |-> <<>>]
  /\ pending = <<>>
  /\ result = <<>>
  /\ crashed = FALSE
  /\ acked = {}
  /\ now = 0

updateFrame == <<backend, file, temp, mu, pending, result, crashed, acked, now>>

\* UpdateTask / MarkTaskDone, first half: s.storage.GetByID(id); its error
\* ends the call
ServiceGetByID(p, c) ==
  /\ pc[p] = "idle"
  /\ LET got == StorageGetByID(backend, store, c.id)
     IN IF got.err # ErrNil
        THEN /\ ret' = [op |-> c.op, caller |-> p, err |-> got.err, val |-> <<>>]
             /\ UNCHANGED <<pc, call, loaded>>
        ELSE /\ pc' = [pc EXCEPT ![p] = "Update"]
             /\ call' = [call EXCEPT ![p] = c]
             /\ loaded' = [loaded EXCEPT ![p] = got.val]
             /\ UNCHANGED ret
  /\ UNCHANGED <<updateFrame, store>>

\* second half: the assignments and s.storage.Update(task)
ServiceUpdate(p) ==
  /\ pc[p] = "Update"
  /\ LET task == Updated(call[p], loaded[p][1])
         r == StorageUpdate(backend, store, task)
     IN /\ store' = r.store
        /\ ret' = [op |-> call[p].op, caller |-> p, err |-> r.err,
                   val |-> IF r.err = ErrNil /\ call[p].op = "UpdateTask"
                           THEN <<task>> ELSE <<>>]
  /\ pc' = [pc EXCEPT ![p] = "idle"]
  /\ call' = [call EXCEPT ![p] = NoUpdateCall]
  /\ loaded' = [loaded EXCEPT ![p] = <<>>]
  /\ UNCHANGED updateFrame

\* Service.DeleteTask: s.storage.Delete(id)
ServiceDelete(p, id) ==
  /\ pc[p] = "idle"
  /\ LET r == StorageDelete(backend, store, id)
     IN /\ store' = r.store
        /\ ret' = [op |-> "DeleteTask", caller |-> p, err |-> r.err, val |-> <<>>]
  /\ UNCHANGED <<updateFrame, pc, call, loaded>>

NextUpdate ==
  \/ \E p \in Callers, c \in UpdateCalls : ServiceGetByID(p, c)
  \/ \E p \in Callers : ServiceUpdate(p)
  \/ \E p \in Callers : ServiceDelete(p, "t1")

SpecUpdate == InitUpdate /\ [][NextUpdate]_vars

(***************************************************************************)
(* SpecPerm: the file backend's handlers as whole calls of one caller,     *)
(* over a file system with permissions.  file is the data file and temp    *)
(* the file at js.filepath + ".tmp", each with its mode; pc is where the   *)
(* process runs: the platform, and whether the directory of the two files  *)
(* is writable; ret is the call that returned last.                        *)
(***************************************************************************)
Platforms == {"unix", "windows"}
FileModes == {"0644", "0444", "0000"}

ErrNotExist == "no such file or directory"
ErrPermission == "permission denied"
ErrNoSpace == "no space left on device"

WithMode(f, mode) == [state |-> f.state, data |-> f.data, mode |-> mode]

\* the read bit is honoured on unix only; the write bit is the read-only
\* attribute on windows
Readable(env, f) == env.os = "windows" \/ f.mode # "0000"
Writable(f) == f.mode = "0644"

\* os.ReadFile and json.Unmarshal in load()
PermLoad(env, f) ==
  IF f.state = "absent" THEN [tasks |-> <<>>, err |-> ErrNotExist]
  ELSE IF ~Readable(env, f) THEN [tasks |-> <<>>, err |-> ErrPermission]
  ELSE IF f.state # "complete" THEN [tasks |-> <<>>, err |-> ErrParse]
  ELSE [tasks |-> load(f.data), err |-> ErrNil]

\* os.WriteFile(name, data, 0644): open with O_WRONLY|O_CREATE|O_TRUNC, write,
\* close.  Creating needs a writable directory on unix, truncating a writable
\* file; full marks a device that takes no more bytes.
WriteFile(env, f, tasks, full) ==
  IF f.state = "absent"
  THEN IF env.os = "unix" /\ ~env.dir THEN [file |-> f, err |-> ErrPermission]
       ELSE IF full THEN [file |-> WithMode(PartialFile, "0644"), err |-> ErrNoSpace]
       ELSE [file |-> WithMode(CompleteFile(tasks), "0644"), err |-> ErrNil]
  ELSE IF ~Writable(f) THEN [file |-> f, err |-> ErrPermission]
       ELSE IF full THEN [file |-> WithMode(PartialFile, f.mode), err |-> ErrNoSpace]
       ELSE [file |-> WithMode(CompleteFile(tasks), f.mode), err |-> ErrNil]

\* os.Rename(oldpath, newpath): on unix it needs the directory writable and
\* takes no notice of the mode of the file it replaces; on windows it does
\* not replace a read-only file
RenameFile(env, old, new) ==
  IF \/ env.os = "unix" /\ ~env.dir
     \/ env.os = "windows" /\ new.state # "absent" /\ ~Writable(new)
  THEN [old |-> old, new |-> new, err |-> ErrPermission]
  ELSE [old |-> WithMode(AbsentFile, "0644"), new |-> old, err |-> ErrNil]

\* save as a plausible slip: os.WriteFile on js.filepath itself
saveInPlace(env, main, tmp, tasks, full) ==
  LET w == WriteFile(env, main, tasks, full)
  IN [file |-> w.file, temp |-> tmp, err |-> w.err]

\* JSONStorage.save: write the temporary file, rename it over the data file
save(env, main, tmp, tasks, full) ==
  LET w == WriteFile(env, tmp, tasks, full)
      r == RenameFile(env, w.file, main)
  IN IF w.err # ErrNil THEN [file |-> main, temp |-> w.file, err |-> w.err]
     ELSE [file |-> r.new, temp |-> r.old, err |-> r.err]

\* the data files a call can find
PermFiles ==
  {WithMode(f, m) :
     f \in {CorruptFile} \cup {CompleteFile(<<>>), CompleteFile(<<PreTask>>)},
     m \in FileModes}
  \cup {WithMode(AbsentFile, "0644")}

InitPerm ==
  /\ backend = StorageTypeJSON
  /\ store = <<>>
  /\ ret = [op |-> "none", id |-> "", err |-> ErrNil, val |-> <<>>]
  /\ file \in PermFiles
  /\ temp \in {WithMode(AbsentFile, "0644"), WithMode(PartialFile, "0644"),
               WithMode(PartialFile, "0444")}
  /\ mu = <<>>
  /\ pc \in [os : Platforms, dir : BOOLEAN]
  /\ call = <<>>
  /\ loaded = <<>>
  /\ pending = <<>>
  /\ result = <<>>
  /\ crashed = FALSE
  /\ acked = {}
  /\ now = 0

permFrame == <<backend, store, mu, pc, call, loaded, pending, result, crashed, acked, now>>

\* Create, Update or Delete: load, the handler's change, save
PermWrite(op, id, m, full) ==
  LET l == PermLoad(pc, file)
      s == save(pc, file, temp, m.tasks, full)
  IN /\ ret' = [op |-> op, id |-> id, val |-> <<>>,
                err |-> IF l.err # ErrNil THEN l.err
                        ELSE IF m.err # ErrNil THEN m.err ELSE s.err]
     /\ IF l.err # ErrNil \/ m.err # ErrNil
        THEN UNCHANGED <<file, temp>>
        ELSE file' = s.file /\ temp' = s.temp
     /\ UNCHANGED permFrame

PermCreate(task, full) ==
  /\ Len(file.data) < MaxFile
  /\ PermWrite("Create", task.id, CreateModify(PermLoad(pc, file).tasks, task), full)

PermUpdate(task, full) ==
  PermWrite("Update", task.id, UpdateModify(PermLoad(pc, file).tasks, task), full)

PermDelete(id, full) ==
  PermWrite("Delete", id, DeleteModify(PermLoad(pc, file).tasks, id), full)

\* GetAll: load
PermGetAll ==
  /\ LET l == PermLoad(pc, file)
     IN ret' = [op |-> "GetAll", id |-> "", err |-> l.err, val |-> l.tasks]
  /\ UNCHANGED <<permFrame, file, temp>>

\* GetByID: load and the search
PermGetByID(id) ==
  /\ LET l == PermLoad(pc, file)
         r == FindByID(l.tasks, id)
     IN ret' = [op |-> "GetByID", id |-> id,
                err |-> IF l.err # ErrNil THEN l.err ELSE r.err,
                val |-> IF l.err # ErrNil THEN <<>> ELSE r.val]
  /\ UNCHANGED <<permFrame, file, temp>>

NextPerm ==
  \/ \E t \in FTasks, full \in BOOLEAN : PermCreate(t, full)
  \/ \E t \in FTasks, full \in BOOLEAN : PermUpdate(t, full)
  \/ \E id \in Ids, full \in BOOLEAN : PermDelete(id, full)
  \/ PermGetAll
  \/ \E id \in Ids : PermGetByID(id)

SpecPerm == InitPerm /\ [][NextPerm]_vars

(***************************************************************************)
(* SpecTwo: two JSONStorage instances on one path.  Each has its own       *)
(* js.mu (mu holds one lock per instance); the data file and the file at   *)
(* filepath + ".tmp" are the same for both.  A caller that has opened the  *)
(* temporary file keeps writing to that file when another caller renames   *)
(* it: pc "WriteMain" is a caller whose open file is now the data file,    *)
(* "WriteGone" one whose open file has since been replaced.                *)
(***************************************************************************)
Instances == {"i1", "i2"}
InstanceOf(p) == IF p = "p2" THEN "i2" ELSE "i1"

InitTwo ==
  /\ backend = StorageTypeJSON
  /\ store = <<>>
  /\ ret = NoCall
  /\ file = NewJSONStorage(NewJSONStorage(AbsentFile))
  /\ temp = AbsentFile
  /\ mu = [i \in Instances |-> [writer |-> NoProc, readers |-> {}]]
  /\ pc = [p \in Procs |-> "idle"]
  /\ call = [p \in Procs |-> NoOp]
  /\ loaded = [p \in Procs |-> <<>>]
  /\ pending = [p \in Procs |-> <<>>]
  /\ result = [p \in Procs |-> NoResult]
  /\ crashed = FALSE
  /\ acked = {}
  /\ now = 0

\* Lock as a plausible slip: a second writer of the instance does not wait
TwoLockNoWait(p) ==
  /\ pc[p] = "Lock"
  /\ mu' = [mu EXCEPT ![InstanceOf(p)].writer = p]
  /\ pc' = [pc EXCEPT ![p] = "LockWait"]
  /\ UNCHANGED <<seqVars, file, temp, call, loaded, pending, result, crashed, acked>>

\* js.mu.Lock() on the caller's instance
TwoLock(p) ==
  /\ pc[p] = "Lock"
  /\ mu[InstanceOf(p)].writer = NoProc
  /\ mu' = [mu EXCEPT ![InstanceOf(p)].writer = p]
  /\ pc' = [pc EXCEPT ![p] = "LockWait"]
  /\ UNCHANGED <<seqVars, file, temp, call, loaded, pending, result, crashed, acked>>

TwoLockWait(p) ==
  /\ pc[p] = "LockWait"
  /\ mu[InstanceOf(p)].readers = {}
  /\ pc' = [pc EXCEPT ![p] = "load"]
  /\ UNCHANGED <<seqVars, file, temp, mu, call, loaded, pending, result, crashed, acked>>

\* js.mu.RLock() on the caller's instance
TwoRLock(p) ==
  /\ pc[p] = "RLock"
  /\ mu[InstanceOf(p)].writer = NoProc
  /\ mu' = [mu EXCEPT ![InstanceOf(p)].readers = @ \cup {p}]
  /\ pc' = [pc EXCEPT ![p] = "rload"]
  /\ UNCHANGED <<seqVars, file, temp, call, loaded, pending, result, crashed, acked>>

\* bytes written from offset 0 over a file that holds more: the tail stays
Overwrite(f, tasks) ==
  IF f.state = "corrupt" \/ (f.state = "complete" /\ Len(f.data) > Len(tasks))
  THEN CorruptFile
  ELSE CompleteFile(tasks)

\* save: os.WriteFile writes the marshalled list to the file it opened
TwoWriteTemp(p) ==
  /\ pc[p] \in {"WriteTemp", "WriteMain", "WriteGone"}
  /\ temp' = IF pc[p] = "WriteTemp" THEN Overwrite(temp, pending[p]) ELSE temp
  /\ file' = IF pc[p] = "WriteMain" THEN Overwrite(file, pending[p]) ELSE file
  /\ pc' = [pc EXCEPT ![p] = "Rename"]
  /\ UNCHANGED <<seqVars, mu, call, loaded, pending, result, crashed, acked>>

\* save: os.Rename(tempFile, js.filepath); it fails when another caller has
\* renamed the temporary file away
TwoRename(p) ==
  /\ pc[p] = "Rename"
  /\ IF temp.state = "absent"
     THEN /\ result' = [result EXCEPT ![p] = [err |-> ErrNotExist, val |-> <<>>]]
          /\ pc' = [pc EXCEPT ![p] = "Unlock"]
          /\ UNCHANGED <<file, temp>>
     ELSE /\ file' = temp
          /\ temp' = AbsentFile
          /\ result' = [result EXCEPT ![p] = NoResult]
          /\ pc' = [q \in Procs |->
                      IF q = p THEN "Unlock"
                      ELSE IF pc[q] = "WriteTemp" THEN "WriteMain"
                      ELSE IF pc[q] = "WriteMain" THEN "WriteGone"
                      ELSE pc[q]]
  /\ UNCHANGED <<seqVars, mu, call, loaded, pending, crashed, acked>>

\* the deferred js.mu.Unlock() and the return; a Create that returned nil is
\* acknowledged
TwoUnlock(p) ==
  /\ pc[p] = "Unlock"
  /\ mu' = [mu EXCEPT ![InstanceOf(p)].writer = NoProc]
  /\ pc' = [pc EXCEPT ![p] = "idle"]
  /\ call' = [call EXCEPT ![p] = NoOp]
  /\ loaded' = [loaded EXCEPT ![p] = <<>>]
  /\ pending' = [pending EXCEPT ![p] = <<>>]
  /\ result' = [result EXCEPT ![p] = NoResult]
  /\ acked' = IF result[p].err = ErrNil /\ call[p].op = "Create"
              THEN acked \cup {call[p].arg[1]} ELSE acked
  /\ UNCHANGED <<seqVars, file, temp, crashed>>

TwoRUnlock(p) ==
  /\ pc[p] = "RUnlock"
  /\ mu' = [mu EXCEPT ![InstanceOf(p)].readers = @ \ {p}]
  /\ pc' = [pc EXCEPT ![p] = "idle"]
  /\ call' = [call EXCEPT ![p] = NoOp]
  /\ loaded' = [loaded EXCEPT ![p] = <<>>]
  /\ result' = [result EXCEPT ![p] = NoResult]
  /\ UNCHANGED <<seqVars, file, temp, pending, crashed, acked>>

\* the callers of instance i whose pc is in section
InSection(i, section) == {p \in Procs : InstanceOf(p) = i /\ pc[p] \in section}

NextTwo ==
  \/ \E p \in Procs, t \in FTasks :
       ~IdInUse(t.id) /\ Room < MaxFile /\ CallWrite(p, "Create", <<t>>, t.id)
  \/ \E p \in Procs : CallRead(p, "GetAll", "")
  \/ \E p \in Procs : TwoLock(p)
  \/ \E p \in Procs : TwoLockWait(p)
  \/ \E p \in Procs : TwoRLock(p)
  \/ \E p \in Procs : Load(p)
  \/ \E p \in Procs : Modify(p)
  \/ \E p \in Procs : OpenTemp(p)
  \/ \E p \in Procs : TwoWriteTemp(p)
  \/ \E p \in Procs : TwoRename(p)
  \/ \E p \in Procs : TwoUnlock(p)
  \/ \E p \in Procs : RLoad(p)
  \/ \E p \in Procs : TwoRUnlock(p)

SpecTwo == InitTwo /\ [][NextTwo]_vars

(***************************************************************************)
(* SpecObjects: the Task values behind the pointers.  loaded is the        *)
(* memory: for each object the Task it holds, or nothing when it is free;  *)
(* the caller holds every object in use and may assign to its fields.      *)
(* Create and Update marshal the object's fields into the file; load       *)
(* unmarshals into new objects.  store is what the JSONStorage value keeps *)
(* between calls besides its path and lock: nothing.                       *)
(***************************************************************************)
Objects == {"o1", "o2", "o3"}

FreeObjects(mem) == {o \in Objects : mem[o] = <<>>}

\* unmarshalling as a plausible slip: a record whose fields equal those of an
\* object in use is returned as that object
SharedObjects(mem, tasks) ==
  CHOOSE objs \in [1..Len(tasks) -> Objects] :
    /\ \A j, k \in 1..Len(tasks) : j # k => objs[j] # objs[k]
    /\ \A k \in 1..Len(tasks) :
         IF \E o \in Objects : mem[o] = <<tasks[k]>>
         THEN mem[objs[k]] = <<tasks[k]>>
         ELSE objs[k] \in FreeObjects(mem)

\* json.Unmarshal into []*models.Task: one new object per record
NewObjects(mem, tasks) ==
  CHOOSE objs \in [1..Len(tasks) -> FreeObjects(mem)] :
    \A j, k \in 1..Len(tasks) : j # k => objs[j] # objs[k]

\* the values a load of the file gives
FileTasks == IF file.state = "complete" THEN load(file.data) ELSE <<>>

InitObjects ==
  /\ backend = StorageTypeJSON
  /\ store = <<>>
  /\ ret = [op |-> "none", val |-> <<>>, err |-> ErrNil]
  /\ file = NewJSONStorage(AbsentFile)
  /\ temp = AbsentFile
  /\ mu = <<>>
  /\ pc = <<>>
  /\ call = <<>>
  /\ loaded = [o \in Objects |-> <<>>]
  /\ pending = <<>>
  /\ result = <<>>
  /\ crashed = FALSE
  /\ acked = {}
  /\ now = 0

objectFrame == <<backend, store, temp, mu, pc, call, pending, result, crashed, acked, now>>

\* the caller builds a Task and calls Create with its pointer
ObjCreate(o, task) ==
  /\ o \in FreeObjects(loaded)
  /\ Len(FileTasks) < MaxFile
  /\ ~HasId(FileTasks, task.id)
  /\ loaded' = [loaded EXCEPT ![o] = <<task>>]
  /\ file' = CompleteFile(CreateModify(FileTasks, task).tasks)
  /\ ret' = [op |-> "Create", val |-> <<o>>, err |-> ErrNil]
  /\ UNCHANGED objectFrame

\* GetAll: the objects load made
ObjGetAll ==
  /\ Cardinality(FreeObjects(loaded)) >= Len(FileTasks)
  /\ LET objs == NewObjects(loaded, FileTasks)
     IN /\ loaded' = [o \in Objects |->
                        IF \E k \in 1..Len(FileTasks) : objs[k] = o
                        THEN <<FileTasks[CHOOSE k \in 1..Len(FileTasks) : objs[k] = o]>>
                        ELSE loaded[o]]
        /\ ret' = [op |-> "GetAll", val |-> objs, err |-> ErrNil]
  /\ UNCHANGED <<objectFrame, file>>

\* GetByID: load, then the pointer of the first record with the id; the other
\* objects load made are dropped on return
ObjGetByID(id) ==
  /\ Cardinality(FreeObjects(loaded)) >= Len(FileTasks)
  /\ LET objs == NewObjects(loaded, FileTasks)
         r == FindByID(FileTasks, id)
     IN IF r.err # ErrNil
        THEN /\ ret' = [op |-> "GetByID", val |-> <<>>, err |-> r.err]
             /\ UNCHANGED loaded
        ELSE LET o == objs[FirstIdx(FileTasks, id)]
             IN /\ loaded' = [loaded EXCEPT ![o] = r.val]
                /\ ret' = [op |-> "GetByID", val |-> <<o>>, err |-> ErrNil]
  /\ UNCHANGED <<objectFrame, file>>

\* Update with the pointer of an object the caller holds
ObjUpdate(o) ==
  /\ loaded[o] # <<>>
  /\ LET r == UpdateModify(FileTasks, loaded[o][1])
     IN /\ file' = IF r.err = ErrNil THEN CompleteFile(r.tasks) ELSE file
        /\ ret' = [op |-> "Update", val |-> <<o>>, err |-> r.err]
  /\ UNCHANGED <<objectFrame, loaded>>

\* the caller assigns to a field of a Task it holds
Mutate(o, title) ==
  /\ loaded[o] # <<>>
  /\ loaded[o][1].title # title
  /\ loaded' = [loaded EXCEPT ![o] = <<[@[1] EXCEPT !.title = title]>>]
  /\ ret' = [op |-> "Mutate", val |-> <<o>>, err |-> ErrNil]
  /\ UNCHANGED <<objectFrame, file>>

\* the caller lets go of a Task
Drop(o) ==
  /\ loaded[o] # <<>>
  /\ loaded' = [loaded EXCEPT ![o] = <<>>]
  /\ ret' = [op |-> "Drop", val |-> <<>>, err |-> ErrNil]
  /\ UNCHANGED <<objectFrame, file>>

NextObjects ==
  \/ \E o \in Objects, t \in FTasks : ObjCreate(o, t)
  \/ ObjGetAll
  \/ \E id \in Ids : ObjGetByID(id)
  \/ \E o \in Objects : ObjUpdate(o)
  \/ \E o \in Objects, title \in Titles : Mutate(o, title)
  \/ \E o \in Objects : Drop(o)

SpecObjects == InitObjects /\ [][NextObjects]_vars

(***************************************************************************)
(* SpecSched: the server process from the point where storage, health      *)
(* check and service are set up to its exit, with the scheduler.  pc holds *)
(* the positions of main and of the scheduler's goroutine; call is the     *)
(* Scheduler (its ticker, and whether ticker.C holds a tick) with the      *)
(* scheduler.enabled setting; result is the rest of the process: the HTTP  *)
(* server, whether store.Close() has run, and what ended the serving; ret  *)
(* is the last performBackup.                                              *)
(***************************************************************************)
ShutdownCauses == {"signal", "server error"}

\* the deferred calls of main as a plausible slip: sched.Stop deferred first
DeferredStopFirst == <<"Stop", "Close">>

\* the deferred calls of main in the order of their defer statements
Deferred == <<"Close", "Stop">>

\* the deferred call that runs after n have run: last deferred, first run
RunDeferred(n) == Deferred[Len(Deferred) - n]

NoBackup == [op |-> "none", err |-> ErrNil, main |-> ""]

InitSched ==
  /\ backend \in LifeTypes
  /\ store = <<>>
  /\ ret = NoBackup
  /\ file = <<>>
  /\ temp = <<>>
  /\ mu = <<>>
  /\ pc = [main |-> "Start", sched |-> "none"]
  /\ call \in [ticker : {"nil"}, tick : {FALSE}, enabled : BOOLEAN]
  /\ loaded = <<>>
  /\ pending = <<>>
  /\ result = [http |-> "none", closed |-> FALSE, cause |-> "", deferred |-> 0]
  /\ crashed = FALSE
  /\ acked = {}
  /\ now = 0

schedFrame == <<backend, store, file, temp, mu, loaded, pending, crashed, acked, now>>

\* main: scheduler.New and Start when scheduler.enabled, then the goroutine
\* that runs server.Start
MainStart ==
  /\ pc.main = "Start"
  /\ IF call.enabled
     THEN /\ call' = [call EXCEPT !.ticker = "running"]
          /\ pc' = [main |-> "serve", sched |-> "select"]
     ELSE /\ pc' = [pc EXCEPT !.main = "serve"]
          /\ UNCHANGED call
  /\ result' = [result EXCEPT !.http = "serving"]
  /\ UNCHANGED <<schedFrame, ret>>

\* the runtime sends a tick on ticker.C, which holds one
TickerTick ==
  /\ call.ticker = "running"
  /\ ~call.tick
  /\ pc.main # "exit"
  /\ call' = [call EXCEPT !.tick = TRUE]
  /\ UNCHANGED <<schedFrame, ret, pc, result>>

\* the goroutine's select: case <-s.ticker.C
RecvTick ==
  /\ pc.sched = "select"
  /\ call.tick
  /\ pc.main # "exit"
  /\ call' = [call EXCEPT !.tick = FALSE]
  /\ pc' = [pc EXCEPT !.sched = "performBackup"]
  /\ UNCHANGED <<schedFrame, ret, result>>

\* performBackup: GetTasksSummary, that is storage.GetAll, and the log line
performBackup ==
  /\ pc.sched = "performBackup"
  /\ pc.main # "exit"
  /\ ret' = [op |-> "performBackup", main |-> pc.main,
             err |-> IF result.closed /\ backend = StorageTypeSQLite
                     THEN ErrDBClosed ELSE ErrNil]
  /\ pc' = [pc EXCEPT !.sched = "select"]
  /\ UNCHANGED <<schedFrame, call, result>>

\* main's select: a signal on quit, or ctx.Done after server.Start failed
Quit(cause) ==
  /\ pc.main = "serve"
  /\ pc' = [pc EXCEPT !.main = "Shutdown"]
  /\ result' = [result EXCEPT !.cause = cause,
                              !.http = IF cause = "signal" THEN @ ELSE "failed"]
  /\ UNCHANGED <<schedFrame, ret, call>>

\* main: server.Shutdown()
Shutdown ==
  /\ pc.main = "Shutdown"
  /\ result' = [result EXCEPT !.http = "shut down"]
  /\ pc' = [pc EXCEPT !.main = "wait"]
  /\ UNCHANGED <<schedFrame, ret, call>>

\* main: <-shutdownCtx.Done(), then main returns and its deferred calls run;
\* sched.Stop is deferred only when the scheduler was started
MainReturn ==
  /\ pc.main = "wait"
  /\ pc' = [pc EXCEPT !.main = "deferred"]
  /\ UNCHANGED <<schedFrame, ret, call, result>>

RunNext ==
  /\ pc.main = "deferred"
  /\ IF result.deferred = Len(Deferred)
     THEN pc' = [pc EXCEPT !.main = "exit"] /\ UNCHANGED result
     ELSE /\ result' = [result EXCEPT !.deferred = @ + 1]
          /\ pc' = [pc EXCEPT !.main =
                      IF RunDeferred(result.deferred) = "Stop" /\ ~call.enabled
                      THEN "deferred" ELSE RunDeferred(result.deferred)]
  /\ UNCHANGED <<schedFrame, ret, call>>

\* Stop: s.ticker.Stop()
StopTicker ==
  /\ pc.main = "Stop"
  /\ call' = [call EXCEPT !.ticker = "stopped"]
  /\ pc' = [pc EXCEPT !.main = "send"]
  /\ UNCHANGED <<schedFrame, ret, result>>

\* Stop as a plausible slip: a send that does not wait for the goroutine
SendDoneNoWait ==
  /\ pc.main = "send"
  /\ pc' = [main |-> "deferred",
            sched |-> IF pc.sched = "select" THEN "exited" ELSE pc.sched]
  /\ UNCHANGED <<schedFrame, ret, call, result>>

\* Stop: s.done <- true, received by the goroutine's select: case <-s.done,
\* return; done has no buffer, so both move together and Stop returns
SendDone ==
  /\ pc.main = "send"
  /\ pc.sched = "select"
  /\ pc' = [main |-> "deferred", sched |-> "exited"]
  /\ UNCHANGED <<schedFrame, ret, call, result>>

\* the deferred store.Close()
Close ==
  /\ pc.main = "Close"
  /\ result' = [result EXCEPT !.closed = TRUE]
  /\ pc' = [pc EXCEPT !.main = "deferred"]
  /\ UNCHANGED <<schedFrame, ret, call>>

\* Stop has been called and has returned
StopReturned == call.ticker = "stopped" /\ pc.main # "send"

NextSched ==
  \/ MainStart
  \/ TickerTick
  \/ RecvTick
  \/ performBackup
  \/ \E cause \in ShutdownCauses : Quit(cause)
  \/ Shutdown
  \/ MainReturn
  \/ RunNext
  \/ StopTicker
  \/ SendDone
  \/ Close

SpecSched == InitSched /\ [][NextSched]_vars

\* the goroutines that can run do run, and performBackup returns
SpecSchedLive ==
  /\ SpecSched
  /\ WF_vars(RecvTick)
  /\ WF_vars(performBackup)
  /\ WF_vars(StopTicker)
  /\ WF_vars(SendDone)

(***************************************************************************)
(* Properties of the contract's calls (specification Spec).                *)
(***************************************************************************)
UniqueIds(s) == \A i, j \in 1..Len(s) : i # j => s[i].id # s[j].id

\* a is b with some elements left out, the others in b's order
IsSubSeq(a, b) ==
  \E f \in [1..Len(a) -> 1..Len(b)] :
    /\ \A i, j \in 1..Len(a) : i < j => f[i] < f[j]
    /\ \A i \in 1..Len(a) : b[f[i]] = a[i]

\* C1: Create(task) fails with a conflict error and leaves the store unchanged
\* when a record with the same id is stored, and succeeds otherwise, on every
\* backend.
C1_CreateConflict ==
  [][ret'.op = "Create" =>
       IF HasId(store, ret'.id)
       THEN IsConflict(ret'.err) /\ store' = store
       ELSE ret'.err = ErrNil /\ HasId(store', ret'.id)]_vars

\* C2: in every reachable state no two stored records have the same id.
C2_UniqueIds == UniqueIds(store)

\* C3: after a Create(t) that returned nil, GetByID(t.id) returns a record equal
\* to t in every field.
C3_RoundTrip ==
  (ret.op = "Create" /\ ret.err = ErrNil) =>
    StorageGetByID(backend, store, ret.id) = [val |-> ret.arg, err |-> ErrNil]

\* C4: after an Update(t') that returned nil, GetByID(t'.id) returns a record
\* equal to t' in every field (an absent due date clears the stored one).
C4_UpdateReplaces ==
  (ret.op = "Update" /\ ret.err = ErrNil) =>
    StorageGetByID(backend, store, ret.id) = [val |-> ret.arg, err |-> ErrNil]

\* C5: Update(task) whose id matches no stored record fails with NotFound and
\* leaves the store unchanged, on every backend.
C5_UpdateNotFound ==
  [][(ret'.op = "Update" /\ ~HasId(store, ret'.id)) =>
       (IsNotFound(ret'.err) /\ store' = store)]_vars

\* C6: after a Delete(id) that returned nil, GetByID(id) and a second Delete(id)
\* fail with NotFound, and the id stays absent until a Create stores it again.
C6_DeleteThenNotFound ==
  [][/\ (ret'.op = "Delete" /\ ret'.err = ErrNil) =>
          /\ IsNotFound(StorageGetByID(backend, store', ret'.id).err)
          /\ IsNotFound(StorageDelete(backend, store', ret'.id).err)
     /\ \A id \in Ids :
          (~HasId(store, id) /\ HasId(store', id)) => (ret'.op = "Create" /\ ret'.id = id)
    ]_vars

\* C10: the file backend keeps insertion order: a successful Create puts the
\* record after all stored ones, GetAll returns the records in stored order, a
\* successful Update changes one record with that id in place, and a
\* successful Delete leaves the other records in their relative order.
C10_InsertionOrder ==
  [][backend = StorageTypeJSON =>
       /\ (ret'.op = "Create" /\ ret'.err = ErrNil) =>
            load(store') = Append(load(store), ret'.arg[1])
       /\ ret'.op = "GetAll" => ret'.val = load(store)
       /\ (ret'.op = "Update" /\ ret'.err = ErrNil) =>
            /\ Len(store') = Len(store)
            /\ \E i \in 1..Len(store) :
                 /\ load(store)[i].id = ret'.id
                 /\ load(store')[i] = ret'.arg[1]
                 /\ \A j \in 1..Len(store) : j # i => store'[j] = store[j]
       /\ (ret'.op = "Delete" /\ ret'.err = ErrNil) =>
            /\ IsSubSeq(load(store'), load(store))
            /\ Len(store') =
                 Cardinality({i \in 1..Len(store) : load(store)[i].id # ret'.id})
    ]_vars

\* a file backend updated its first of several records in place
C10_Witness ==
  /\ backend = StorageTypeJSON
  /\ ret.op = "Update" /\ ret.err = ErrNil
  /\ Len(store) = 3
  /\ load(store)[1] = ret.arg[1]
  /\ load(store)[2].id # ret.id

(***************************************************************************)
(* Properties of the file backend step by step.                            *)
(***************************************************************************)
\* C7: at every point at which the process can be killed, and in the state a
\* kill leaves, the main file is a complete parsable collection: the one the
\* running operation loaded until its rename, the one it saves from then on.
C7_AtomicWrite ==
  /\ file.state = "complete"
  /\ \A p \in Procs :
       /\ pc[p] \in {"modify", "OpenTemp", "WriteTemp", "Rename"} =>
            load(file.data) = loaded[p]
       /\ pc[p] = "Unlock" =>
            load(file.data) = IF result[p].err = ErrNil THEN pending[p] ELSE loaded[p]

\* the process was killed while a changed collection was being written to the
\* temporary file
C7_Witness ==
  /\ crashed
  /\ \E p \in Procs :
       /\ pc[p] = "WriteTemp"
       /\ temp.state = "partial"
       /\ pending[p] # loaded[p]
       /\ loaded[p] # <<>>

\* C8: at most one Create/Update/Delete is inside its load-modify-save section,
\* and while one is, no GetAll or GetByID is inside its load.
C8_ReaderWriterExclusion ==
  /\ Cardinality(Writers) <= 1
  /\ Writers # {} => Readers = {}

\* two readers are inside load together while a writer that announced itself
\* is kept waiting
C8_Witness ==
  /\ Cardinality({p \in Procs : pc[p] = "rload"}) = 2
  /\ \E p \in Procs : pc[p] = "LockWait"

\* C9: Creates with pairwise distinct ids concurrent with GetAll calls: every
\* call returns nil, no stored record disappears, and once all calls have
\* returned the file holds every created record.
C9_NoLostUpdate ==
  /\ [](\A p \in Procs : pc[p] \in {"Unlock", "RUnlock"} => result[p].err = ErrNil)
  /\ []((\A p \in Procs : pc[p] = "idle") =>
          /\ file.state = "complete"
          /\ acked \subseteq Range(load(file.data)))
  /\ [][Range(file.data) \subseteq Range(file'.data)]_vars

\* both Creates have returned and the record stored before is still there
C9_Witness ==
  /\ \A p \in Procs : pc[p] = "idle"
  /\ Cardinality(acked) = 2
  /\ Len(file.data) = 3
  /\ PreTask \in Range(load(file.data))

\* C11: while the file's content is not a parsable array, every operation
\* returns the parse error without reaching its modify or save steps, and no
\* step changes the main file or writes the temporary file.
C11_CorruptStore ==
  /\ [](file.state = "corrupt" =>
          \A p \in Procs :
            /\ pc[p] \in {"Unlock", "RUnlock"} => result[p].err = ErrParse
            /\ pc[p] \notin {"modify", "OpenTemp", "WriteTemp", "Rename"})
  /\ [][file.state = "corrupt" => file' = file /\ temp' = temp]_vars

\* a Create on the corrupt file is about to return the parse error while a
\* GetAll waits for the lock
C11_Witness ==
  /\ file.state = "corrupt"
  /\ \E p \in Procs :
       /\ pc[p] = "Unlock"
       /\ call[p].op = "Create"
       /\ result[p].err = ErrParse
  /\ \E p \in Procs : pc[p] = "RLock" /\ call[p].op = "GetAll"

\* C12: GetByID(id) returns one stored record whose id is id when the store
\* holds one, and otherwise a not-found error and no record; it leaves the
\* store as it is.
C12_GetByID ==
  [][ret'.op = "GetByID" =>
       /\ store' = store
       /\ IF HasId(store, ret'.id)
          THEN /\ ret'.err = ErrNil
               /\ Len(ret'.val) = 1
               /\ ret'.val[1].id = ret'.id
               /\ ret'.val[1] \in Range(Decode(backend, store))
          ELSE /\ IsNotFound(ret'.err)
               /\ ret'.val = <<>>]_vars

\* GetByID found a record that is not the first one of the store
C12_Witness ==
  /\ ret.op = "GetByID"
  /\ ret.err = ErrNil
  /\ Len(store) >= 2
  /\ store[1].id # ret.id
  /\ ret.val[1].id = ret.id

\* tasks holds under id a record that has (has = TRUE) or lacks a due date
StoresDue(tasks, id, has) ==
  \E i \in 1..Len(tasks) : tasks[i].id = id /\ (tasks[i].dueDate # <<>>) = has

\* C13: having or not having a due date is kept: a successful Create or
\* Update stores a record with a due date exactly when its argument has one
\* (the zero timestamp counts as one); GetByID and GetAll change nothing and
\* return the records with and without due date as they are stored; and a
\* step that changes the store leaves every record as it was, unless it is
\* the record a successful Create or Update wrote, which has a due date
\* exactly when the argument has.
C13_DueDateAbsence ==
  /\ []((ret.op \in {"Create", "Update"} /\ ret.err = ErrNil) =>
          StoresDue(Decode(backend, store), ret.id, ret.arg[1].dueDate # <<>>))
  /\ []((ret.op = "GetByID" /\ ret.err = ErrNil) =>
          StoresDue(Decode(backend, store), ret.id, ret.val[1].dueDate # <<>>))
  /\ [](ret.op = "GetAll" =>
          LET stored == Decode(backend, store)
          IN /\ Len(ret.val) = Len(stored)
             /\ \A i \in 1..Len(stored) :
                  /\ StoresDue(ret.val, stored[i].id, stored[i].dueDate # <<>>)
                  /\ StoresDue(stored, ret.val[i].id, ret.val[i].dueDate # <<>>))
  /\ [][\/ store' = store
        \/ /\ ret'.op \notin {"GetAll", "GetByID"}
           /\ \A i \in 1..Len(store') :
                \/ \E j \in 1..Len(store) : store[j] = store'[i]
                \/ LET rec == Decode(backend, <<store'[i]>>)[1]
                   IN \/ /\ ret'.op \in {"Create", "Update"}
                         /\ ret'.err = ErrNil
                         /\ rec.id = ret'.id
                         /\ (rec.dueDate # <<>>) = (ret'.arg[1].dueDate # <<>>)
                      \/ StoresDue(Decode(backend, store), rec.id,
                                   rec.dueDate # <<>>)]_vars

\* an Update stored the zero timestamp as due date next to a record without
\* a due date
C13_Witness ==
  /\ ret.op = "Update"
  /\ ret.err = ErrNil
  /\ ret.arg[1].dueDate = <<0>>
  /\ StoresDue(Decode(backend, store), ret.id, TRUE)
  /\ \E id \in Ids \ {ret.id} : StoresDue(Decode(backend, store), id, FALSE)

\* C14: after a successful Update(t), GetByID(t.id) returns a record whose
\* createdAt is t.createdAt, on every backend.
C14_UpdateStoresCreatedAt ==
  (ret.op = "Update" /\ ret.err = ErrNil) =>
    LET r == StorageGetByID(backend, store, ret.id)
    IN r.err = ErrNil /\ r.val[1].createdAt = ret.arg[1].createdAt

\* C15: a successful Delete(id) makes the store one record shorter and keeps
\* every record with another id, unchanged and in the same number.
C15_DeleteRemovesOne ==
  [][(ret'.op = "Delete" /\ ret'.err = ErrNil) =>
       /\ Len(store') = Len(store) - 1
       /\ FilterOut(store', ret'.id) = FilterOut(store, ret'.id)]_vars

\* C16: when Create, Update or Delete of the file backend is about to return
\* nil, the temporary file does not exist and the main file is complete and
\* holds the list the operation saved; also when an earlier kill of the
\* process left a temporary file behind.
C16_TempFileGone ==
  \A p \in Procs :
    (pc[p] = "Unlock" /\ result[p].err = ErrNil) =>
      /\ temp = AbsentFile
      /\ file = CompleteFile(pending[p])

\* an Update that changed a file of two records is about to return nil
C16_Witness ==
  \E p \in Procs :
    /\ pc[p] = "Unlock"
    /\ result[p].err = ErrNil
    /\ call[p].op = "Update"
    /\ Len(pending[p]) = 2
    /\ pending[p] # loaded[p]

\* C17: every GetAll or GetByID of the file backend that is about to return
\* has read the collection the file holds now: GetAll returns it without
\* error, GetByID returns what a search of it gives, so all the readers
\* inside see the same collection.
C17_ConcurrentReads ==
  \A p \in Procs :
    pc[p] = "RUnlock" =>
      /\ file.state = "complete"
      /\ loaded[p] = load(file.data)
      /\ result[p] = IF call[p].op = "GetAll"
                     THEN [err |-> ErrNil, val |-> load(file.data)]
                     ELSE FindByID(load(file.data), call[p].id)

\* three readers, GetAll and GetByID among them, are about to return from a
\* file of two records while no writer is anywhere in a call
C17_Witness ==
  /\ \A p \in Procs : pc[p] = "RUnlock"
  /\ \E p \in Procs : call[p].op = "GetAll"
  /\ \E p \in Procs : call[p].op = "GetByID" /\ result[p].err = ErrNil
  /\ Len(file.data) = 2

\* the kind of an error: none, not found, conflict
ErrKind(err) ==
  CASE err = ErrNil -> "ok"
    [] IsNotFound(err) -> "NotFound"
    [] IsConflict(err) -> "AlreadyExists"
    [] OTHER -> "other"

\* C18: after every call made to both, the file backend and the SQLite
\* backend returned an error of the same kind (or both none), the same
\* record from GetByID and the same set of records from GetAll.
C18_Equivalent ==
  LET j == ret[StorageTypeJSON]
      q == ret[StorageTypeSQLite]
  IN /\ ErrKind(j.err) = ErrKind(q.err)
     /\ j.op = "GetByID" => j.val = q.val
     /\ j.op = "GetAll" => Range(j.val) = Range(q.val)

(***************************************************************************)
(* Properties of the factory (specification SpecFactory).                  *)
(***************************************************************************)
\* C19: NewStorage and NewStorageFromEnv, on a configuration that
\* ValidateConfig rejects, return an invalid-configuration error, have not
\* tried to connect and have created or written no file.
C19_ValidatesFirst ==
  (/\ ret.op \in {"NewStorage", "NewStorageFromEnv"}
   /\ ret.cfg # <<>>
   /\ ValidateConfig(ret.cfg[1]) # ErrNil) =>
    /\ IsInvalidConfig(ret.err)
    /\ ~ret.dialed
    /\ ret.created = {}

\* the required fields of the configuration's kind are set
RequiredFieldsSet(config) ==
  \/ /\ config.Type \in {StorageTypeJSON, StorageTypeSQLite}
     /\ config.FilePath # ""
  \/ /\ config.Type \in {StorageTypePostgreSQL, StorageTypeMySQL}
     /\ config.Host # ""
     /\ config.User # ""
     /\ config.DBName # ""
     /\ config.Port > 0
  \/ /\ config.Type = StorageTypeMongoDB
     /\ config.URI # <<>>
     /\ config.DBName # ""
     /\ config.Collection # ""

\* C20: ValidateConfig returns nil exactly when the required fields of the
\* configuration's kind are set (file path; host, user, database name and a
\* port > 0; URI, database name and collection name), and an error for any
\* other configuration, an unsupported kind included.
C20_ValidateConfig ==
  (ret.op = "ValidateConfig") =>
    /\ (ret.err = ErrNil) <=> RequiredFieldsSet(ret.cfg[1])
    /\ ret.err # ErrNil => IsInvalidConfig(ret.err)
    /\ ret.cfg[1].Type \notin StorageTypes => ret.err = ErrUnsupported

\* ValidateConfig rejected a mysql configuration whose only fault is port 0
C20_Witness ==
  /\ ret.op = "ValidateConfig"
  /\ ret.cfg[1].Type = StorageTypeMySQL
  /\ ret.cfg[1].Host # "" /\ ret.cfg[1].User # "" /\ ret.cfg[1].DBName # ""
  /\ ret.cfg[1].Port = 0
  /\ ret.err = ErrPortRequired

\* C21: NewStorage returns a backend of the kind config.Type and no error, or
\* an error and no backend; its error is the unsupported-type error exactly
\* for the types IsStorageTypeSupported rejects, which are exactly the types
\* for which ValidateConfig reports an unsupported type; and what
\* IsStorageTypeSupported answers is membership in the five kinds.
C21_NewStorageKind ==
  /\ ret.op = "NewStorage" =>
       LET type == ret.cfg[1].Type
       IN /\ ret.err = ErrNil => ret.kind = type /\ backend = type /\ type \in StorageTypes
          /\ ret.err # ErrNil => ret.kind = "none" /\ backend = "none"
          /\ (ret.err = ErrUnsupported) <=> ~IsStorageTypeSupported(type)
          /\ (ValidateConfig(ret.cfg[1]) = ErrUnsupported) <=> ~IsStorageTypeSupported(type)
  /\ ret.op = "IsStorageTypeSupported" =>
       (ret.supported <=> ret.cfg[1].Type \in StorageTypes)

\* NewStorage built the document backend
C21_Witness ==
  /\ ret.op = "NewStorage"
  /\ ret.err = ErrNil
  /\ ret.kind = StorageTypeMongoDB
  /\ backend = StorageTypeMongoDB

\* C22: GetAll on the SQLite, MySQL, PostgreSQL and MongoDB backends returns
\* the records ordered by creation time descending.
C22_GetAllNewestFirst ==
  (ret.op = "GetAll" /\ ret.err = ErrNil /\ backend # StorageTypeJSON) =>
    \A i, j \in 1..Len(ret.val) :
      i < j => ret.val[i].createdAt >= ret.val[j].createdAt

LifeCalls == {"Create", "GetAll", "GetByID", "Update", "Delete"}

\* C23: Close changes nothing that is persisted, and neither does opening a
\* new instance on the path afterwards: the GetAll of an instance opened
\* after Close returns exactly the records stored when Close returned.
C23_CloseKeepsState ==
  /\ [][ret'.op = "Close" => file' = file]_vars
  /\ []((ret.op = "GetAll" /\ ~pc.closed /\ loaded # <<>>) =>
          /\ ret.err = ErrNil
          /\ ret.val = loaded[1])

\* records were stored, Close returned, and the new instance's GetAll ran
C23_Witness ==
  /\ ret.op = "GetAll"
  /\ ~pc.closed
  /\ loaded # <<>>
  /\ Len(ret.val) = 2
  /\ backend = StorageTypeSQLite

\* C24: once Close has returned on a SQLite instance, each Create, GetAll,
\* GetByID, Update and Delete on it returns an error and leaves the
\* persisted records as they are.
C24_ClosedSQLite ==
  /\ []((backend = StorageTypeSQLite /\ pc.closed /\ ret.op \in LifeCalls) =>
          ret.err # ErrNil)
  /\ [][(backend = StorageTypeSQLite /\ pc.closed /\ ret'.op \in LifeCalls) =>
          file' = file]_vars

\* a Create of a new id on the closed SQLite instance
C24_Witness ==
  /\ backend = StorageTypeSQLite
  /\ pc.closed
  /\ ret.op = "Create"
  /\ ~HasId(file.data, ret.id)
  /\ ret.err = ErrDBClosed

\* C25: Service.HealthCheck makes one storage call and returns its error:
\* the backend's HealthCheck on MySQL, PostgreSQL and MongoDB, GetAll on the
\* file and SQLite backends; nothing is called again and nothing stored
\* changes, whether the call failed or not.
C25_HealthCheck ==
  /\ [](ret.op = "HealthCheck" =>
          /\ Len(ret.calls) = 1
          /\ ret.calls[1].method =
               IF backend \in {StorageTypeJSON, StorageTypeSQLite}
               THEN "GetAll" ELSE "HealthCheck"
          /\ ret.err = ret.calls[1].err)
  /\ [][ret'.op = "HealthCheck" => store' = store /\ backend' = backend]_vars

\* the fallback's GetAll failed on SQLite with records stored
C25_Witness ==
  /\ ret.op = "HealthCheck"
  /\ backend = StorageTypeSQLite
  /\ ret.calls = <<StorageCall("GetAll", <<>>, ErrStorage)>>
  /\ ret.err = ErrStorage
  /\ store # <<>>

\* C29: Service.CreateTask with an empty or blank title returns 'task title
\* cannot be empty' and makes no storage call, the store unchanged; with any
\* other title it makes exactly one storage call, a Create of a record with
\* that title, done = false and the given due date, and returns the created
\* task, or the Create's error and no task.
C29_CreateTask ==
  [][ret'.op = "CreateTask" =>
       IF ret'.title \in {"", " "}
       THEN /\ ret'.err = ErrEmptyTitle
            /\ ret'.val = <<>>
            /\ ret'.calls = <<>>
            /\ store' = store
       ELSE /\ Len(ret'.calls) = 1
            /\ ret'.calls[1].method = "Create"
            /\ LET task == ret'.calls[1].arg[1]
               IN /\ task.title = ret'.title
                  /\ task.done = FALSE
                  /\ task.dueDate = ret'.due
                  /\ ret'.err = ret'.calls[1].err
                  /\ ret'.val = IF ret'.err = ErrNil THEN <<task>> ELSE <<>>
                  /\ ret'.err # ErrNil => store' = store]_vars

\* a blank title was refused while records are stored
C29_Witness ==
  /\ ret.op = "CreateTask"
  /\ ret.title = " "
  /\ ret.err = ErrEmptyTitle
  /\ ret.calls = <<>>
  /\ store # <<>>

\* C30: the ids the service assigns are unique: no two tasks CreateTask
\* returned share an id, and no two stored records do.
C30_UniqueServiceIds ==
  /\ \A a, b \in acked : a.id = b.id => a = b
  /\ UniqueIds(store)

\* C28: the document backend runs the connection under the configured
\* connect timeout and each Create, GetAll, GetByID, Update and Delete under
\* the configured query timeout.
C28_MongoTimeouts ==
  /\ (/\ ret.op \in {"NewStorage", "NewStorageFromEnv"}
      /\ ret.cfg # <<>>
      /\ ret.dialed
      /\ ret.cfg[1].Type = StorageTypeMongoDB) =>
       ret.timeout = ret.cfg[1].ConnectTimeout
  /\ (ret.op \in StorageOps /\ backend = StorageTypeMongoDB) =>
       ret.timeout = ret.cfg[1].QueryTimeout

\* C26: LoadConfigFromEnv fails, with no configuration, exactly when DB_PORT
\* is set and not a number or a timeout is set and does not parse, whatever
\* STORAGE_TYPE is; otherwise unset variables take their defaults (kind json,
\* path tasks.json, host localhost, port 5432 / 3306 / 27017 for postgres /
\* mysql / mongodb, connect timeout 10s, query timeout 5s) and a set DB_PORT
\* is the port of every kind.
C26_EnvDefaults ==
  ret.op = "LoadConfigFromEnv" =>
    LET env == ret.env[1]
        bad == \/ env.DB_PORT \notin {"", "0", "5432"}
               \/ env.MONGODB_CONNECT_TIMEOUT \notin {"", "1s"}
               \/ env.MONGODB_QUERY_TIMEOUT \notin {"", "1s"}
    IN IF bad
       THEN ret.err # ErrNil /\ ret.cfg = <<>>
       ELSE /\ ret.err = ErrNil
            /\ Len(ret.cfg) = 1
            /\ LET config == ret.cfg[1]
               IN /\ config.Type = IF env.STORAGE_TYPE = "" THEN "json"
                                   ELSE env.STORAGE_TYPE
                  /\ config.FilePath = IF env.STORAGE_FILE_PATH = "" THEN "tasks.json"
                                       ELSE env.STORAGE_FILE_PATH
                  /\ config.Host = IF env.DB_HOST = "" THEN "localhost" ELSE env.DB_HOST
                  /\ env.DB_PORT = "5432" => config.Port = 5432
                  /\ env.DB_PORT = "0" => config.Port = 0
                  /\ (env.DB_PORT = "" /\ config.Type = "postgres") => config.Port = 5432
                  /\ (env.DB_PORT = "" /\ config.Type = "mysql") => config.Port = 3306
                  /\ (env.DB_PORT = "" /\ config.Type = "mongodb") => config.Port = 27017
                  /\ config.ConnectTimeout =
                       IF env.MONGODB_CONNECT_TIMEOUT = "" THEN 10 ELSE 1
                  /\ config.QueryTimeout =
                       IF env.MONGODB_QUERY_TIMEOUT = "" THEN 5 ELSE 1

\* DB_PORT overrides the default port of mysql; the timeouts are defaulted
C26_Witness ==
  /\ ret.op = "LoadConfigFromEnv"
  /\ ret.err = ErrNil
  /\ ret.env[1].STORAGE_TYPE = "mysql"
  /\ ret.env[1].DB_PORT = "5432"
  /\ ret.cfg[1].Port = 5432
  /\ ret.env[1].MONGODB_QUERY_TIMEOUT = ""
  /\ ret.cfg[1].QueryTimeout = 5

\* C27: NewJSONStorage on a path with no file creates the file holding the
\* empty collection, which GetAll returns as zero records; on a path with a
\* file it leaves the file as it is and returns an instance that reads the
\* stored records; when the directory does not exist it returns an error and
\* no instance, and creates nothing.
C27_NewJSONStorage ==
  /\ [][(ret'.op = "New" /\ backend = StorageTypeJSON) =>
          CASE file.state = "absent" ->
                 /\ ret'.err = ErrNil
                 /\ pc'.inst = "made"
                 /\ file'.state = "complete"
                 /\ file'.data = <<>>
                 /\ JSONGetAll(file'.data) = {<<>>}
            [] file.state = "nodir" ->
                 /\ ret'.err # ErrNil
                 /\ pc'.inst = "none"
                 /\ file' = file
            [] OTHER ->
                 /\ ret'.err = ErrNil
                 /\ pc'.inst = "made"
                 /\ file' = file]_vars
  /\ []((backend = StorageTypeJSON /\ ret.op = "GetAll") =>
          ret.err = ErrNil /\ ret.val = load(file.data))

\* the instance opened on the existing file returned the record stored in it
C27_Witness ==
  /\ backend = StorageTypeJSON
  /\ ret.op = "GetAll"
  /\ ~pc.closed
  /\ loaded = <<>>
  /\ ret.val = <<PreTask>>

\* C31: Service.UpdateTask on a stored id persists a record whose title is
\* replaced only by a non-empty title, whose done is replaced always and whose
\* due date is replaced only by a non-nil one, with id and CreatedAt and every
\* other record as they were; on a missing id it returns an error and stores
\* nothing.
C31_UpdateTask ==
  [][\A p \in Callers :
       /\ (\E c \in UpdateCalls :
             /\ c.op = "UpdateTask"
             /\ ServiceGetByID(p, c)
             /\ StorageGetByID(backend, store, c.id).err # ErrNil)
          => /\ ret'.err # ErrNil
             /\ ret'.caller = p
             /\ store' = store
             /\ pc'[p] = "idle"
       /\ (/\ ServiceUpdate(p)
           /\ call[p].op = "UpdateTask"
           /\ StoredTask(store, call[p].id) = loaded[p])
          => LET old == loaded[p][1]
                 c == call[p]
             IN /\ StoredTask(store', c.id) =
                     <<[id |-> old.id,
                        title |-> IF c.title # "" THEN c.title ELSE old.title,
                        done |-> c.done,
                        createdAt |-> old.createdAt,
                        dueDate |-> IF c.due # <<>> THEN c.due ELSE old.dueDate]>>
                /\ Len(store') = Len(store)
                /\ StoredTask(store', "t2") = StoredTask(store, "t2")]_vars

\* an UpdateTask with no title and no due date has set done and kept the
\* seeded title and due date, next to another record
C31_Witness ==
  /\ ret.op = "UpdateTask"
  /\ ret.err = ErrNil
  /\ ret.val = <<[SeedTask EXCEPT !.done = TRUE]>>
  /\ StoredTask(store, "t1") = ret.val
  /\ StoredTask(store, "t2") = <<OtherTask>>

\* C32: Create on a file backend whose data file is read-only (mode 0444) in a
\* writable directory returns an error and leaves the data file unchanged.
C32_ReadOnlyFile ==
  [][\A t \in FTasks, full \in BOOLEAN :
       (/\ PermCreate(t, full)
        /\ file.state = "complete"
        /\ file.mode = "0444"
        /\ pc.dir)
       => (ret'.err # ErrNil /\ file' = file)]_vars

\* C33: UpdateTask and MarkTaskDone read with GetByID and write with Update,
\* two separate storage calls: when another call changed the record in
\* between, the Update stores the task built from the earlier read, so the
\* other call's changes are gone; when a Delete removed the record in
\* between, the call fails with not-found.
C33_ReadModifyWrite ==
  [][\A p \in Callers :
       ServiceUpdate(p) =>
         IF StoredTask(store, call[p].id) # <<>>
         THEN StoredTask(store', call[p].id) = <<Updated(call[p], loaded[p][1])>>
         ELSE /\ IsNotFound(ret'.err)
              /\ store' = store]_vars

\* C34: the file backend's lock belongs to one instance.  Callers of the
\* same JSONStorage exclude each other (one writer, and no reader beside it),
\* callers of two instances on one path do not, and both instances write and
\* rename the same temporary path; a record whose Create returned nil can be
\* gone from the file afterwards.
C34_LockPerInstance ==
  \A i \in Instances :
    LET writers == InSection(i, WriterSection \cup {"WriteMain", "WriteGone"})
        readers == InSection(i, ReaderSection)
    IN /\ Cardinality(writers) <= 1
       /\ writers # {} => readers = {}
       /\ writers \subseteq {mu[i].writer}
       /\ readers = mu[i].readers

\* both instances have returned nil from a Create, every caller is back, and
\* the file is a complete collection without one of the two records
C34_Witness ==
  /\ \A p \in Procs : pc[p] = "idle"
  /\ file.state = "complete"
  /\ \E t \in acked : ~HasId(load(file.data), t.id)

\* C35: a Create, Update or Delete on the file backend that returns an error
\* (not-found, a load failure, a failure writing the temporary file, a failure
\* of the rename) leaves the data file exactly as it was before the call.
C35_ErrorLeavesFile ==
  [][(/\ ret'.op \in {"Create", "Update", "Delete"}
      /\ ret'.err # ErrNil
      /\ \/ \E t \in FTasks, full \in BOOLEAN : PermCreate(t, full) \/ PermUpdate(t, full)
         \/ \E id \in Ids, full \in BOOLEAN : PermDelete(id, full))
     => file' = file]_vars

\* a Create wrote the temporary file and failed in the rename: the temporary
\* file holds the new list, the data file the old one
C35_Witness ==
  /\ ret.op = "Create"
  /\ ret.err = ErrPermission
  /\ temp.state = "complete"
  /\ HasId(load(temp.data), ret.id)
  /\ file.state = "complete"
  /\ ~HasId(load(file.data), ret.id)

\* C37: on the file backend a successful Create adds exactly one record and
\* leaves the earlier records as they were, in place; a successful Update
\* leaves the number of records and every record with another id as they
\* were; GetAll and GetByID never change the file.
C37_Frame ==
  [][LET old == load(file.data)
         new == load(file'.data)
     IN /\ (ret'.err = ErrNil /\ \E t \in FTasks, full \in BOOLEAN : PermCreate(t, full))
           => /\ Len(new) = Len(old) + 1
              /\ SubSeq(new, 1, Len(old)) = old
              /\ new[Len(new)].id = ret'.id
        /\ (ret'.err = ErrNil /\ \E t \in FTasks, full \in BOOLEAN : PermUpdate(t, full))
           => /\ Len(new) = Len(old)
              /\ \A k \in 1..Len(old) : old[k].id # ret'.id => new[k] = old[k]
        /\ (PermGetAll \/ \E id \in Ids : PermGetByID(id))
           => (file' = file /\ temp' = temp)]_vars

\* an Update has succeeded on a file of two records and left the other one
C37_Witness ==
  /\ ret.op = "Update"
  /\ ret.err = ErrNil
  /\ file.state = "complete"
  /\ Len(file.data) = 2
  /\ \E k \in 1..2 : load(file.data)[k].id # ret.id

C36_NoDeadlock ==
  /\ []((\E p \in Procs : pc[p] # "idle")
          => \E p \in Procs : ENABLED (Running(p) \/ Waiting(p)))
  /\ [](\A p \in Procs : pc[p] = "idle" => p # mu.writer /\ p \notin mu.readers)
  /\ \A p \in Procs : (pc[p] # "idle") ~> (pc[p] = "idle")

\* a Create is about to return a save error, holding the lock that a writer
\* and a reader wait for
C36_Witness ==
  \E p, q, r \in Procs :
    /\ pc[p] = "Unlock"
    /\ result[p].err = ErrWrite
    /\ pc[q] = "Lock"
    /\ pc[r] = "RLock"

\* C39: the scheduler's stop protocol.  After Start, a call of Stop returns
\* eventually, given that a running performBackup returns; once Stop has
\* returned the goroutine has left its loop and performBackup does not run
\* again, also when a tick was pending in ticker.C at the call of Stop.
C39_StopProtocol ==
  /\ (pc.main = "Stop") ~> StopReturned
  /\ [](StopReturned => pc.sched = "exited")
  /\ [][StopReturned => (ret' = ret /\ pc'.sched = "exited")]_vars

\* Stop has returned and the goroutine is gone with the pending tick left in
\* ticker.C
C39_Witness ==
  /\ StopReturned
  /\ pc.sched = "exited"
  /\ call.tick

\* C40: the normal shutdown path of the server process (a signal or a server
\* error): server.Shutdown is called first, then the scheduler's Stop returns,
\* and only then the storage is closed; performBackup never runs on a storage
\* that has been closed.
C40_ShutdownOrder ==
  /\ [](pc.main \in {"Stop", "send", "Close"} => result.http = "shut down")
  /\ [](result.closed =>
          /\ result.http = "shut down"
          /\ call.enabled => (StopReturned /\ pc.sched = "exited"))
  /\ [][performBackup => ~result.closed]_vars
  /\ [](ret.err = ErrNil)

\* the process has exited with the storage closed; the last performBackup ran
\* after server.Shutdown, while Stop was waiting to hand over done
C40_Witness ==
  /\ pc.main = "exit"
  /\ result.closed
  /\ result.http = "shut down"
  /\ ret.op = "performBackup"
  /\ ret.main = "send"
  /\ backend = StorageTypeSQLite

====
